---- MODULE Spec2Model ----
(***************************************************************************)
(* Mini Math Compiler front end: lexer (src/compiler/lexer.ts), parser     *)
(* (src/compiler/parser.ts), semantic analyzer (src/compiler/semantic.ts)  *)
(* and pretty printer (src/compiler/prettyPrint.ts).                        *)
(*                                                                         *)
(* Characters are one-character strings, source text and lexemes are       *)
(* sequences of characters.  Indices of the program are 0-based, those of  *)
(* the sequences here 1-based: source[i] of the program is source[i + 1].  *)
(***************************************************************************)
EXTENDS Integers, Sequences, FiniteSets, TLC

VARIABLES
    pc,             \* where the running entry point stands
    lexer,          \* the fields of the Lexer object
    parser,         \* the fields of the Parser object
    statements,     \* Parser.parse: the local list of parsed statements
    ast,            \* SemanticAnalyzer.analyze: its argument
    analyzer,       \* the fields of the SemanticAnalyzer object
    annotatedAst,   \* SemanticAnalyzer.analyze: the local list of annotated nodes
    printed,        \* round trip: the text printAST returned
    reparsed,       \* round trip: parse(tokenize(printed))
    edited,         \* whitespace test: the second source and its tokens
    result,         \* compile: its locals, then the CompilationResult returned
    worker,         \* createCompilerWorker: its closure, the worker thread, the messages
    app,            \* App: its state and refs
    heap            \* the node objects by address, where analyze runs on references

vars == <<pc, lexer, parser, statements, ast, analyzer, annotatedAst, printed, reparsed,
         edited, result, worker, app, heap>>

(***************************************************************************)
(* Bounds of the model                                                     *)
(***************************************************************************)
MaxSrcLen == 5      \* longest source text the lexer specification scans
MaxTokens == 5      \* most tokens before EOF the parser specification is given
MaxOps == 3         \* most operators in an expression given to the parser
MaxCalls == 3       \* most calls of compile() on one worker manager
MaxStmts == 3       \* most statements in a program given to the analyzer

(***************************************************************************)
(* Characters                                                              *)
(***************************************************************************)
NUL == "<NUL>"      \* '\0', what Lexer.peek and Lexer.peekNext return at the end
VT  == "<VT>"       \* '\v'
FF  == "\f"

Digits == {"0", "1", "2", "3", "4", "5", "6", "7", "8", "9"}

LowerCase == {"a", "b", "c", "d", "e", "f", "g", "h", "i", "j", "k", "l", "m",
              "n", "o", "p", "q", "r", "s", "t", "u", "v", "w", "x", "y", "z"}

UpperCase == {"A", "B", "C", "D", "E", "F", "G", "H", "I", "J", "K", "L", "M",
              "N", "O", "P", "Q", "R", "S", "T", "U", "V", "W", "X", "Y", "Z"}

TokenType == {"INTEGER", "FLOAT", "IDENTIFIER", "PLUS", "MINUS", "STAR", "SLASH",
              "CARET", "LPAREN", "RPAREN", "EQUALS", "EOF", "ERROR"}

\* All sequences over S of length 0..n
SeqsUpTo(S, n) == UNION {[1..k -> S] : k \in 0..n}

\* JavaScript's String.prototype.substring(from, to) for 0 <= from <= to <= length
substring(s, from, to) == SubSeq(s, from + 1, to)

(***************************************************************************)
(* Numbers.  A non-negative decimal number is [int, frac]: its integer     *)
(* part and the digits of its fraction without trailing zeros, so that two *)
(* numerals denote the same number iff the records are equal.              *)
(***************************************************************************)
DigitValue(c) ==
    CASE c = "0" -> 0 [] c = "1" -> 1 [] c = "2" -> 2 [] c = "3" -> 3 [] c = "4" -> 4
      [] c = "5" -> 5 [] c = "6" -> 6 [] c = "7" -> 7 [] c = "8" -> 8 [] c = "9" -> 9

DigitChar(d) ==
    CASE d = 0 -> "0" [] d = 1 -> "1" [] d = 2 -> "2" [] d = 3 -> "3" [] d = 4 -> "4"
      [] d = 5 -> "5" [] d = 6 -> "6" [] d = 7 -> "7" [] d = 8 -> "8" [] d = 9 -> "9"

\* The decimal digits of a natural number: Number.prototype.toString on it
RECURSIVE NatToChars(_)
NatToChars(n) ==
    IF n < 10 THEN <<DigitChar(n)>> ELSE NatToChars(n \div 10) \o <<DigitChar(n % 10)>>

NaN == [nan |-> TRUE]

undefined == "undefined"

noLiteral == [undefined |-> TRUE]   \* the literal argument of addToken left out

RECURSIVE DigitsValue(_)
DigitsValue(ds) ==
    IF ds = <<>> THEN 0
    ELSE 10 * DigitsValue(SubSeq(ds, 1, Len(ds) - 1)) + DigitValue(ds[Len(ds)])

RECURSIVE StripTrailingZeros(_)
StripTrailingZeros(ds) ==
    IF ds # <<>> /\ ds[Len(ds)] = "0"
    THEN StripTrailingZeros(SubSeq(ds, 1, Len(ds) - 1))
    ELSE ds

\* Length of the longest prefix of s made of digits
RECURSIVE DigitPrefixLen(_)
DigitPrefixLen(s) ==
    IF s # <<>> /\ s[1] \in Digits THEN 1 + DigitPrefixLen(Tail(s)) ELSE 0

\* parseFloat on the text of an unsigned decimal numeral: the longest prefix
\* digits [ "." digits ] is the number, NaN when the text starts with no digit.
parseFloat(s) ==
    LET n    == DigitPrefixLen(s)
        rest == SubSeq(s, n + 1, Len(s))
        m    == IF rest # <<>> /\ rest[1] = "." THEN DigitPrefixLen(Tail(rest)) ELSE 0
    IN  IF n = 0 THEN NaN
        ELSE [int  |-> DigitsValue(SubSeq(s, 1, n)),
              frac |-> StripTrailingZeros(SubSeq(rest, 2, m + 1))]

(***************************************************************************)
(* Lexer (src/compiler/lexer.ts)                                           *)
(***************************************************************************)
Position(line, column) == [line |-> line, column |-> column]

newLexer(source) ==
    [source |-> source, tokens |-> <<>>, start |-> 0, current |-> 0,
     line |-> 1, column |-> 1, startColumn |-> 1]

Lexer_isAtEnd(lx) == lx.current >= Len(lx.source)

\* advance(): the lexer after the call; the character returned is Lexer_current(lx)
Lexer_current(lx) == lx.source[lx.current + 1]

Lexer_advance(lx) == [lx EXCEPT !.current = @ + 1, !.column = @ + 1]

Lexer_peek(lx) == IF Lexer_isAtEnd(lx) THEN NUL ELSE lx.source[lx.current + 1]

Lexer_peekNext(lx) ==
    IF lx.current + 1 >= Len(lx.source) THEN NUL ELSE lx.source[lx.current + 2]

isDigit(c) == c \in Digits

isAlpha(c) == c \in LowerCase \/ c \in UpperCase \/ c = "_"

isAlphaNumeric(c) == isAlpha(c) \/ isDigit(c)

\* Mutant of getPosition: the column where the token ends
getPosition_atEnd(lx) == Position(lx.line, lx.column)

getPosition(lx) == Position(lx.line, lx.startColumn)

\* Mutant of addToken: the lexeme starts one character late
addToken_dropFirst(lx, type, literal) ==
    LET lexeme == substring(lx.source, lx.start + 1, lx.current)
    IN  [lx EXCEPT !.tokens =
            Append(@, IF literal # noLiteral
                      THEN [type |-> type, lexeme |-> lexeme,
                            position |-> getPosition(lx), literal |-> literal]
                      ELSE [type |-> type, lexeme |-> lexeme,
                            position |-> getPosition(lx)])]

addToken(lx, type, literal) ==
    LET lexeme == substring(lx.source, lx.start, lx.current)
        token  == [type |-> type, lexeme |-> lexeme, position |-> getPosition(lx)]
    IN  [lx EXCEPT !.tokens =
            Append(@, IF literal # noLiteral
                      THEN [type |-> type, lexeme |-> lexeme,
                            position |-> getPosition(lx), literal |-> literal]
                      ELSE token)]

\* Mutant of addErrorToken: scanning gives up at the unexpected character
addErrorToken_giveUp(lx) ==
    LET lexeme == substring(lx.source, lx.start, lx.current)
    IN  [lx EXCEPT !.tokens =
            Append(@, [type |-> "ERROR", lexeme |-> lexeme, position |-> getPosition(lx)]),
                   !.current = Len(lx.source)]

addErrorToken(lx) ==
    LET lexeme == substring(lx.source, lx.start, lx.current)
    IN  [lx EXCEPT !.tokens =
            Append(@, [type |-> "ERROR", lexeme |-> lexeme, position |-> getPosition(lx)])]

\* while (isDigit(peek())) advance()
RECURSIVE advanceWhileDigit(_)
advanceWhileDigit(lx) ==
    IF isDigit(Lexer_peek(lx)) THEN advanceWhileDigit(Lexer_advance(lx)) ELSE lx

\* while (isAlphaNumeric(peek())) advance()
RECURSIVE advanceWhileAlphaNumeric(_)
advanceWhileAlphaNumeric(lx) ==
    IF isAlphaNumeric(Lexer_peek(lx)) THEN advanceWhileAlphaNumeric(Lexer_advance(lx)) ELSE lx

\* Mutant of number: a `.` after the digits is consumed without looking at the
\* character after it
number_greedyDot(lx) ==
    LET intPart  == advanceWhileDigit(lx)
        isFloat  == Lexer_peek(intPart) = "."
        scanned  == IF isFloat THEN advanceWhileDigit(Lexer_advance(intPart)) ELSE intPart
        lexeme   == substring(scanned.source, scanned.start, scanned.current)
        literal  == parseFloat(lexeme)
    IN  addToken(scanned, IF isFloat THEN "FLOAT" ELSE "INTEGER", literal)

number(lx) ==
    LET intPart  == advanceWhileDigit(lx)
        isFloat  == Lexer_peek(intPart) = "." /\ isDigit(Lexer_peekNext(intPart))
        scanned  == IF isFloat THEN advanceWhileDigit(Lexer_advance(intPart)) ELSE intPart
        lexeme   == substring(scanned.source, scanned.start, scanned.current)
        literal  == parseFloat(lexeme)
    IN  addToken(scanned, IF isFloat THEN "FLOAT" ELSE "INTEGER", literal)

identifier(lx) == addToken(advanceWhileAlphaNumeric(lx), "IDENTIFIER", noLiteral)

\* Mutant of scanToken: a newline is emitted as a token
scanToken_newlineToken(lx) ==
    LET c == Lexer_current(lx)
        a == Lexer_advance(lx)
    IN  CASE c = "+" -> addToken(a, "PLUS", noLiteral)
          [] c = "-" -> addToken(a, "MINUS", noLiteral)
          [] c = "*" -> addToken(a, "STAR", noLiteral)
          [] c = "/" -> addToken(a, "SLASH", noLiteral)
          [] c = "^" -> addToken(a, "CARET", noLiteral)
          [] c = "(" -> addToken(a, "LPAREN", noLiteral)
          [] c = ")" -> addToken(a, "RPAREN", noLiteral)
          [] c = "=" -> addToken(a, "EQUALS", noLiteral)
          [] c \in {" ", "\r", "\t"} -> a
          [] c = "\n" -> addErrorToken([a EXCEPT !.line = @ + 1, !.column = 1])
          [] OTHER -> IF isDigit(c) THEN number(a)
                      ELSE IF isAlpha(c) THEN identifier(a)
                      ELSE addErrorToken(a)

\* Mutant of scanToken: a newline resets the column and keeps the line
scanToken_sameLine(lx) ==
    LET c == Lexer_current(lx)
        a == Lexer_advance(lx)
    IN  CASE c = "+" -> addToken(a, "PLUS", noLiteral)
          [] c = "-" -> addToken(a, "MINUS", noLiteral)
          [] c = "*" -> addToken(a, "STAR", noLiteral)
          [] c = "/" -> addToken(a, "SLASH", noLiteral)
          [] c = "^" -> addToken(a, "CARET", noLiteral)
          [] c = "(" -> addToken(a, "LPAREN", noLiteral)
          [] c = ")" -> addToken(a, "RPAREN", noLiteral)
          [] c = "=" -> addToken(a, "EQUALS", noLiteral)
          [] c \in {" ", "\r", "\t"} -> a
          [] c = "\n" -> [a EXCEPT !.column = 1]
          [] OTHER -> IF isDigit(c) THEN number(a)
                      ELSE IF isAlpha(c) THEN identifier(a)
                      ELSE addErrorToken(a)

scanToken(lx) ==
    LET c == Lexer_current(lx)
        a == Lexer_advance(lx)
    IN  CASE c = "+" -> addToken(a, "PLUS", noLiteral)
          [] c = "-" -> addToken(a, "MINUS", noLiteral)
          [] c = "*" -> addToken(a, "STAR", noLiteral)
          [] c = "/" -> addToken(a, "SLASH", noLiteral)
          [] c = "^" -> addToken(a, "CARET", noLiteral)
          [] c = "(" -> addToken(a, "LPAREN", noLiteral)
          [] c = ")" -> addToken(a, "RPAREN", noLiteral)
          [] c = "=" -> addToken(a, "EQUALS", noLiteral)
          [] c \in {" ", "\r", "\t"} -> a
          [] c = "\n" -> [a EXCEPT !.line = @ + 1, !.column = 1]
          [] OTHER -> IF isDigit(c) THEN number(a)
                      ELSE IF isAlpha(c) THEN identifier(a)
                      ELSE addErrorToken(a)

\* One iteration of the loop of Lexer.tokenize
Lexer_loopBody(lx) ==
    scanToken([lx EXCEPT !.start = lx.current, !.startColumn = lx.column])

\* Mutant of Lexer_pushEOF: the EOF token is appended only after another token
Lexer_pushEOF_afterTokenOnly(lx) ==
    IF lx.tokens = <<>> THEN lx
    ELSE [lx EXCEPT !.tokens =
            Append(@, [type |-> "EOF", lexeme |-> <<>>,
                       position |-> Position(lx.line, lx.column)])]

\* Lexer.tokenize after its loop: the EOF token is appended
Lexer_pushEOF(lx) ==
    [lx EXCEPT !.tokens =
        Append(@, [type |-> "EOF", lexeme |-> <<>>,
                   position |-> Position(lx.line, lx.column)])]

RECURSIVE Lexer_tokenize(_)
Lexer_tokenize(lx) ==
    IF ~Lexer_isAtEnd(lx) THEN Lexer_tokenize(Lexer_loopBody(lx)) ELSE Lexer_pushEOF(lx)

\* export function tokenize(source)
tokenize(source) == Lexer_tokenize(newLexer(source)).tokens

(***************************************************************************)
(* Parser (src/compiler/parser.ts).  The Parser object is the record       *)
(* [tokens, current, errors].  A method that may throw returns             *)
(* [ok, node, parser]: ok = FALSE is the exception on its way to the catch *)
(* of Parser.parse, and parser is the object as the method left it.        *)
(***************************************************************************)
null == [kind |-> "null"]

newParser(tokens) == [tokens |-> tokens, current |-> 0, errors |-> <<>>]

Returned(node, p) == [ok |-> TRUE, node |-> node, parser |-> p]

Thrown(p) == [ok |-> FALSE, node |-> null, parser |-> p]

Parser_peek(p) == p.tokens[p.current + 1]

Parser_previous(p) == p.tokens[p.current]

Parser_isAtEnd(p) == Parser_peek(p).type = "EOF"

\* advance(): the parser after the call; the token returned is Parser_previous of it
Parser_advance(p) == IF ~Parser_isAtEnd(p) THEN [p EXCEPT !.current = @ + 1] ELSE p

check(p, type) == IF Parser_isAtEnd(p) THEN FALSE ELSE Parser_peek(p).type = type

\* match(...types): the value returned; when TRUE the parser has advanced by one
match(p, types) == \E i \in DOMAIN types : check(p, types[i])

Parser_addError(p, message, position, expected, actual) ==
    [p EXCEPT !.errors =
        Append(@, [phase |-> "syntax", message |-> message, position |-> position,
                   expected |-> expected, actual |-> actual])]

\* Mutant of expect: the error is recorded and nothing is thrown
expect_noThrow(p, type, message) ==
    IF check(p, type)
    THEN Returned(Parser_previous(Parser_advance(p)), Parser_advance(p))
    ELSE LET token == Parser_peek(p)
         IN  Returned(token, Parser_addError(p, message, token.position, type, token.type))

expect(p, type, message) ==
    IF check(p, type)
    THEN Returned(Parser_previous(Parser_advance(p)), Parser_advance(p))
    ELSE LET token == Parser_peek(p)
         IN  Thrown(Parser_addError(p, message, token.position, type, token.type))

lookAhead(p, n) ==
    LET index == p.current + n
    IN  IF index < Len(p.tokens) THEN p.tokens[index + 1] ELSE [type |-> undefined]

createLiteralNode(token, dataType) ==
    [kind     |-> "Literal",
     value    |-> IF "literal" \in DOMAIN token THEN token.literal
                  ELSE parseFloat(token.lexeme),
     dataType |-> dataType,
     position |-> token.position]

createVariableNode(token) ==
    [kind |-> "Variable", name |-> token.lexeme, position |-> token.position]

BinaryExprNode(operator, left, right, position) ==
    [kind |-> "BinaryExpr", operator |-> operator, left |-> left, right |-> right,
     position |-> position]

UnaryExprNode(operator, operand, position) ==
    [kind |-> "UnaryExpr", operator |-> operator, operand |-> operand,
     position |-> position]

AssignmentNode(name, value, position) ==
    [kind |-> "Assignment", name |-> name, value |-> value, position |-> position]

\* A call that may throw, then the rest of the caller: an exception of the call
\* is passed on, otherwise rest gets what the call returned
Then(call, rest(_)) == IF ~call.ok THEN call ELSE rest(call)

RECURSIVE parseAdditive(_), parseAdditiveLoop(_, _), parseMultiplicative(_),
          parseMultiplicativeLoop(_, _), parsePower(_), parseUnary(_), parsePrimary(_)

parseExpression(p) == parseAdditive(p)

parsePrimary(p) ==
    IF match(p, <<"INTEGER">>)
    THEN Returned(createLiteralNode(Parser_peek(p), "Integer"), Parser_advance(p))
    ELSE IF match(p, <<"FLOAT">>)
    THEN Returned(createLiteralNode(Parser_peek(p), "Float"), Parser_advance(p))
    ELSE IF match(p, <<"IDENTIFIER">>)
    THEN Returned(createVariableNode(Parser_peek(p)), Parser_advance(p))
    ELSE IF match(p, <<"LPAREN">>)
    THEN Then(parseExpression(Parser_advance(p)), LAMBDA expr :
         Then(expect(expr.parser, "RPAREN", "Expected ')' after expression"),
              LAMBDA closing : Returned(expr.node, closing.parser)))
    ELSE Thrown(Parser_addError(p, "Expected expression", Parser_peek(p).position,
                                "expression", Parser_peek(p).type))

\* In the four methods below the operator token is the one match() consumed:
\* previous() after the match, peek() before it.
parseUnary(p) ==
    IF match(p, <<"MINUS", "PLUS">>)
    THEN Then(parseUnary(Parser_advance(p)), LAMBDA operand :
              Returned(UnaryExprNode(Parser_peek(p).lexeme, operand.node,
                                     Parser_peek(p).position),
                       operand.parser))
    ELSE parsePrimary(p)

\* Mutant of parsePower: the right operand is parsed by parseUnary, not by
\* parsePower itself
parsePower_unaryOnRight(p) ==
    Then(parseUnary(p), LAMBDA left :
         IF match(left.parser, <<"CARET">>)
         THEN Then(parseUnary(Parser_advance(left.parser)), LAMBDA right :
                   Returned(BinaryExprNode(<<"^">>, left.node, right.node,
                                           Parser_peek(left.parser).position),
                            right.parser))
         ELSE left)

parsePower(p) ==
    Then(parseUnary(p), LAMBDA left :
         IF match(left.parser, <<"CARET">>)
         THEN Then(parsePower(Parser_advance(left.parser)), LAMBDA right :
                   Returned(BinaryExprNode(<<"^">>, left.node, right.node,
                                           Parser_peek(left.parser).position),
                            right.parser))
         ELSE left)

\* the while loop of parseMultiplicative, entered with `left` parsed
parseMultiplicativeLoop(p, left) ==
    IF match(p, <<"STAR", "SLASH">>)
    THEN Then(parsePower(Parser_advance(p)), LAMBDA right :
              parseMultiplicativeLoop(
                  right.parser,
                  BinaryExprNode(Parser_peek(p).lexeme, left, right.node,
                                 Parser_peek(p).position)))
    ELSE Returned(left, p)

parseMultiplicative(p) ==
    Then(parsePower(p), LAMBDA left : parseMultiplicativeLoop(left.parser, left.node))

\* the while loop of parseAdditive, entered with `left` parsed
parseAdditiveLoop(p, left) ==
    IF match(p, <<"PLUS", "MINUS">>)
    THEN Then(parseMultiplicative(Parser_advance(p)), LAMBDA right :
              parseAdditiveLoop(
                  right.parser,
                  BinaryExprNode(Parser_peek(p).lexeme, left, right.node,
                                 Parser_peek(p).position)))
    ELSE Returned(left, p)

parseAdditive(p) ==
    Then(parseMultiplicative(p), LAMBDA left : parseAdditiveLoop(left.parser, left.node))

\* nameToken is the IDENTIFIER at the cursor; two advance() calls consume it
\* and the EQUALS after it
parseAssignment(p) ==
    Then(parseExpression(Parser_advance(Parser_advance(p))), LAMBDA value :
         Returned(AssignmentNode(Parser_peek(p).lexeme, value.node,
                                 Parser_peek(p).position),
                  value.parser))

\* The lookahead of parseStatement: IDENTIFIER followed by EQUALS
BeginsAssignment(p) == check(p, "IDENTIFIER") /\ lookAhead(p, 1).type = "EQUALS"

\* while (check('ERROR')) advance()
RECURSIVE skipErrorTokens(_)
skipErrorTokens(p) ==
    IF check(p, "ERROR") THEN skipErrorTokens(Parser_advance(p)) ELSE p

\* Mutant of parseStatement: ERROR tokens are not skipped
parseStatement_noSkip(p) ==
    IF Parser_isAtEnd(p) THEN Returned(null, p)
    ELSE IF BeginsAssignment(p)
    THEN parseAssignment(p)
    ELSE parseExpression(p)

parseStatement(p) ==
    LET q == skipErrorTokens(p)
    IN  IF Parser_isAtEnd(q) THEN Returned(null, q)
        ELSE IF BeginsAssignment(q)
        THEN parseAssignment(q)
        ELSE parseExpression(q)

\* Mutant of Parser_afterStatement: the catch clause skips the offending token
\* and goes on with the next statement
Parser_afterStatement_recover(stmt, stmts) ==
    IF stmt.ok
    THEN [parser     |-> stmt.parser,
          statements |-> IF stmt.node # null THEN Append(stmts, stmt.node) ELSE stmts,
          break      |-> FALSE]
    ELSE [parser     |-> Parser_advance(stmt.parser),
          statements |-> stmts,
          break      |-> Parser_isAtEnd(stmt.parser)]

\* Mutant of Parser_afterStatement: the catch clause steps back one token
Parser_afterStatement_backUp(stmt, stmts) ==
    IF stmt.ok
    THEN [parser     |-> stmt.parser,
          statements |-> IF stmt.node # null THEN Append(stmts, stmt.node) ELSE stmts,
          break      |-> FALSE]
    ELSE [parser     |-> [stmt.parser EXCEPT !.current = IF @ > 0 THEN @ - 1 ELSE @],
          statements |-> stmts,
          break      |-> TRUE]

\* Parser.parse, the rest of one iteration once parseStatement has returned or
\* thrown: the parser and the statements after it, and whether the catch
\* clause left the loop
Parser_afterStatement(stmt, stmts) ==
    IF stmt.ok
    THEN [parser     |-> stmt.parser,
          statements |-> IF stmt.node # null THEN Append(stmts, stmt.node) ELSE stmts,
          break      |-> FALSE]
    ELSE [parser |-> stmt.parser, statements |-> stmts, break |-> TRUE]

\* One iteration of the loop of Parser.parse
Parser_loopBody(p, stmts) == Parser_afterStatement(parseStatement(p), stmts)

RECURSIVE Parser_parse(_, _)

\* Parser.parse after one iteration of its loop
Parser_parseNext(step) ==
    IF step.break THEN [ast |-> step.statements, errors |-> step.parser.errors]
    ELSE Parser_parse(step.parser, step.statements)

Parser_parse(p, stmts) ==
    IF ~Parser_isAtEnd(p) THEN Parser_parseNext(Parser_loopBody(p, stmts))
    ELSE [ast |-> stmts, errors |-> p.errors]

\* export function parse(tokens)
parse(tokens) == Parser_parse(newParser(tokens), <<>>)

(***************************************************************************)
(* An AST node without the positions                                      *)
(***************************************************************************)
RECURSIVE StripPositions(_)
StripPositions(node) ==
    CASE node.kind = "Literal" ->
             [kind |-> "Literal", value |-> node.value, dataType |-> node.dataType]
      [] node.kind = "Variable" -> [kind |-> "Variable", name |-> node.name]
      [] node.kind = "UnaryExpr" ->
             [kind |-> "UnaryExpr", operator |-> node.operator,
              operand |-> StripPositions(node.operand)]
      [] node.kind = "BinaryExpr" ->
             [kind |-> "BinaryExpr", operator |-> node.operator,
              left |-> StripPositions(node.left), right |-> StripPositions(node.right)]
      [] node.kind = "Assignment" ->
             [kind |-> "Assignment", name |-> node.name,
              value |-> StripPositions(node.value)]

(***************************************************************************)
(* Pretty printer (src/compiler/prettyPrint.ts)                            *)
(***************************************************************************)
\* Number.prototype.toString on a non-negative number in decimal notation
\* (every number below 1e21 whose fraction has fewer than 7 leading zeros)
NumberToString(value) ==
    IF value.frac = <<>> THEN NatToChars(value.int)
    ELSE NatToChars(value.int) \o <<".">> \o value.frac

\* Math.floor
Math_floor(value) == [int |-> value.int, frac |-> <<>>]

RECURSIVE printAST(_)
printAST(node) ==
    CASE node.kind = "Literal" ->
             IF node.dataType = "Integer" THEN NumberToString(Math_floor(node.value))
             ELSE NumberToString(node.value)
      [] node.kind = "Variable" -> node.name
      [] node.kind = "UnaryExpr" ->
             IF node.operand.kind = "BinaryExpr"
             THEN node.operator \o <<"(">> \o printAST(node.operand) \o <<")">>
             ELSE node.operator \o printAST(node.operand)
      [] node.kind = "BinaryExpr" ->
             <<"(">> \o printAST(node.left) \o <<" ">> \o node.operator \o <<" ">>
                 \o printAST(node.right) \o <<")">>
      [] node.kind = "Assignment" ->
             node.name \o <<" ", "=", " ">> \o printAST(node.value)

\* astEqual of the round-trip test: structural equality, positions ignored
astEqual(a, b) == StripPositions(a) = StripPositions(b)

(***************************************************************************)
(* Semantic analyzer (src/compiler/semantic.ts)                            *)
(* An analyzer is [symbolTable, errors]; symbolTable is the Map as the     *)
(* sequence of its entries in insertion order.  The methods return the     *)
(* annotated node together with the analyzer after the call.               *)
(***************************************************************************)
newAnalyzer == [symbolTable |-> <<>>, errors |-> <<>>]

\* Map.prototype.has
Map_has(table, name) == \E i \in DOMAIN table : table[i].name = name

\* Map.prototype.get
Map_get(table, name) ==
    IF Map_has(table, name)
    THEN table[CHOOSE i \in DOMAIN table : table[i].name = name]
    ELSE undefined

\* Mutant of Map_set: an entry already in the table is kept
Map_set_keepFirst(table, name, entry) ==
    IF \E i \in DOMAIN table : table[i].name = name
    THEN table
    ELSE Append(table, entry)

\* Map.prototype.set: the entry of a key already present is replaced in place
Map_set(table, name, entry) ==
    IF \E i \in DOMAIN table : table[i].name = name
    THEN [i \in DOMAIN table |-> IF table[i].name = name THEN entry ELSE table[i]]
    ELSE Append(table, entry)

\* node.resolvedType: undefined when the node has no such property
resolvedTypeOf(node) ==
    IF "resolvedType" \in DOMAIN node THEN node.resolvedType ELSE undefined

\* { ...node, resolvedType }
withResolvedType(node, resolvedType) ==
    [f \in DOMAIN node \cup {"resolvedType"} |->
        IF f = "resolvedType" THEN resolvedType ELSE node[f]]

getResolvedType(node) ==
    IF node.kind = "Assignment" THEN resolvedTypeOf(node.value)
    ELSE resolvedTypeOf(node)

\* Mutant of SemanticAnalyzer_addError: a name already reported is not reported again
SemanticAnalyzer_addError_oncePerName(a, message, position, variableName) ==
    IF \E i \in DOMAIN a.errors : a.errors[i].variableName = variableName
    THEN a
    ELSE [a EXCEPT !.errors =
             Append(@, [phase |-> "semantic", message |-> message,
                        position |-> position, variableName |-> variableName])]

SemanticAnalyzer_addError(a, message, position, variableName) ==
    [a EXCEPT !.errors =
        Append(@, [phase |-> "semantic", message |-> message,
                   position |-> position, variableName |-> variableName])]

\* What a method returns and the analyzer it leaves
Annotated(node, a) == [node |-> node, analyzer |-> a]

\* A call, then the rest of the caller with what the call returned
Let(call, rest(_)) == rest(call)

\* Mutant of analyzeLiteral: the node is returned as it came
analyzeLiteral_unannotated(a, node) == Annotated(node, a)

analyzeLiteral(a, node) == Annotated(withResolvedType(node, node.dataType), a)

analyzeVariable(a, node) ==
    LET entry == Map_get(a.symbolTable, node.name)
    IN  IF ~Map_has(a.symbolTable, node.name)      \* if (!entry)
        THEN Annotated(node,
                       SemanticAnalyzer_addError(a, <<"Undefined variable '", node.name, "'">>,
                                                 node.position, node.name))
        ELSE Annotated(withResolvedType(node, entry.type), a)

\* Mutant of binaryResolvedType: only the left operand promotes to Float
binaryResolvedType_leftOnly(operator, leftType, rightType) ==
    IF leftType # undefined /\ rightType # undefined
    THEN IF operator = <<"/">> THEN "Float"
         ELSE IF leftType = "Float" THEN "Float"
         ELSE "Integer"
    ELSE undefined

\* analyzeBinaryExpr: let resolvedType ... (the type promotion rules)
binaryResolvedType(operator, leftType, rightType) ==
    IF leftType # undefined /\ rightType # undefined
    THEN IF operator = <<"/">> THEN "Float"
         ELSE IF leftType = "Float" \/ rightType = "Float" THEN "Float"
         ELSE "Integer"
    ELSE undefined

RECURSIVE analyzeNode(_, _)

\* Mutant of analyzeAssignment: the entry is written whether or not the value
\* resolved to a type, with type Integer when it did not
analyzeAssignment_alwaysSet(a, node) ==
    Let(analyzeNode(a, node.value), LAMBDA value :
        Annotated([node EXCEPT !.value = value.node],
                  [value.analyzer EXCEPT !.symbolTable =
                      Map_set(@, node.name,
                              [name |-> node.name,
                               type |-> IF getResolvedType(value.node) # undefined
                                        THEN getResolvedType(value.node) ELSE "Integer",
                               definedAt |-> node.position])]))

\* Mutant of analyzeAssignment: an assignment whose value did not resolve moves
\* the definedAt of the entry the name already has
analyzeAssignment_touchEntry(a, node) ==
    Let(analyzeNode(a, node.value), LAMBDA value :
        LET valueType == getResolvedType(value.node)
        IN  Annotated([node EXCEPT !.value = value.node],
                      IF valueType # undefined
                      THEN [value.analyzer EXCEPT !.symbolTable =
                               Map_set(@, node.name,
                                       [name |-> node.name, type |-> valueType,
                                        definedAt |-> node.position])]
                      ELSE [value.analyzer EXCEPT !.symbolTable =
                               [i \in DOMAIN @ |->
                                   IF @[i].name = node.name
                                   THEN [@[i] EXCEPT !.definedAt = node.position]
                                   ELSE @[i]]]))

analyzeAssignment(a, node) ==
    Let(analyzeNode(a, node.value), LAMBDA value :
        LET valueType == getResolvedType(value.node)
        IN  Annotated([node EXCEPT !.value = value.node],
                      IF valueType # undefined
                      THEN [value.analyzer EXCEPT !.symbolTable =
                               Map_set(@, node.name,
                                       [name |-> node.name, type |-> valueType,
                                        definedAt |-> node.position])]
                      ELSE value.analyzer))

analyzeBinaryExpr(a, node) ==
    Let(analyzeNode(a, node.left), LAMBDA left :
        Let(analyzeNode(left.analyzer, node.right), LAMBDA right :
            Annotated(withResolvedType([node EXCEPT !.left = left.node,
                                                    !.right = right.node],
                                       binaryResolvedType(node.operator,
                                                          getResolvedType(left.node),
                                                          getResolvedType(right.node))),
                      right.analyzer)))

analyzeUnaryExpr(a, node) ==
    Let(analyzeNode(a, node.operand), LAMBDA operand :
        Annotated(withResolvedType([node EXCEPT !.operand = operand.node],
                                   getResolvedType(operand.node)),
                  operand.analyzer))

analyzeNode(a, node) ==
    CASE node.kind = "Assignment" -> analyzeAssignment(a, node)
      [] node.kind = "BinaryExpr" -> analyzeBinaryExpr(a, node)
      [] node.kind = "UnaryExpr"  -> analyzeUnaryExpr(a, node)
      [] node.kind = "Literal"    -> analyzeLiteral(a, node)
      [] node.kind = "Variable"   -> analyzeVariable(a, node)

\* SemanticAnalyzer.analyze, one iteration of the loop over ast
SemanticAnalyzer_loopBody(a, annotated, node) ==
    Let(analyzeNode(a, node), LAMBDA r :
        [analyzer |-> r.analyzer, annotatedAst |-> Append(annotated, r.node)])

RECURSIVE SemanticAnalyzer_analyzeFrom(_, _)
SemanticAnalyzer_analyzeFrom(step, nodes) ==
    IF Len(step.annotatedAst) = Len(nodes)
    THEN [symbolTable  |-> step.analyzer.symbolTable,
          annotatedAst |-> step.annotatedAst,
          errors       |-> step.analyzer.errors]
    ELSE SemanticAnalyzer_analyzeFrom(
             SemanticAnalyzer_loopBody(step.analyzer, step.annotatedAst,
                                       nodes[Len(step.annotatedAst) + 1]),
             nodes)

\* export function analyze(ast)
analyze(nodes) ==
    SemanticAnalyzer_analyzeFrom([analyzer |-> newAnalyzer, annotatedAst |-> <<>>], nodes)

(***************************************************************************)
(* Idle values of the variables a specification does not use               *)
(***************************************************************************)
idleLexer    == newLexer(<<>>)
idleParser   == newParser(<<>>)
idleAnalyzer == newAnalyzer

(***************************************************************************)
(* Specification SpecLexer: tokenize(source) step by step, for every       *)
(* source over LexAlphabet of length at most MaxSrcLen                     *)
(***************************************************************************)
LexAlphabet == {"1", "x", "+", "=", ".", "@", " ", "\n"}

LexInit ==
    /\ pc = "tokenize"
    /\ \E source \in SeqsUpTo(LexAlphabet, MaxSrcLen) : lexer = newLexer(source)
    /\ parser = idleParser
    /\ statements = <<>>
    /\ ast = <<>>
    /\ analyzer = idleAnalyzer
    /\ annotatedAst = <<>>
    /\ printed = <<>>
    /\ reparsed = <<>>
    /\ edited = <<>>
    /\ worker = <<>>
    /\ app = <<>>
    /\ heap = <<>>
    /\ result = <<>>

TokenizeStep ==
    /\ pc = "tokenize"
    /\ ~Lexer_isAtEnd(lexer)
    /\ lexer' = Lexer_loopBody(lexer)
    /\ UNCHANGED <<heap, worker, app, pc, parser, statements, ast, analyzer, annotatedAst, printed, reparsed,
                 edited, result>>

TokenizeReturn ==
    /\ pc = "tokenize"
    /\ Lexer_isAtEnd(lexer)
    /\ lexer' = Lexer_pushEOF(lexer)
    /\ pc' = "tokenized"
    /\ UNCHANGED <<heap, worker, app, parser, statements, ast, analyzer, annotatedAst, printed, reparsed,
                 edited, result>>

LexNext == TokenizeStep \/ TokenizeReturn

SpecLexer == LexInit /\ [][LexNext]_vars

(***************************************************************************)
(* Specification SpecParser: parse(tokens) one iteration of its loop at a  *)
(* time, for the tokens of every text of at most MaxTokens words of        *)
(* ParseWords separated by single spaces                                   *)
(***************************************************************************)
ParseWords == {<<"1">>, <<"x">>, <<"+">>, <<"(">>, <<")">>, <<"=">>, <<"@">>}

\* words.join(sep)
RECURSIVE join(_, _)
join(words, sep) ==
    IF words = <<>> THEN <<>>
    ELSE IF Len(words) = 1 THEN words[1]
    ELSE words[1] \o sep \o join(Tail(words), sep)

ParseInit ==
    /\ pc = "parse"
    /\ \E words \in SeqsUpTo(ParseWords, MaxTokens) :
          parser = newParser(tokenize(join(words, <<" ">>)))
    /\ lexer = idleLexer
    /\ statements = <<>>
    /\ ast = <<>>
    /\ analyzer = idleAnalyzer
    /\ annotatedAst = <<>>
    /\ printed = <<>>
    /\ reparsed = <<>>
    /\ edited = <<>>
    /\ worker = <<>>
    /\ app = <<>>
    /\ heap = <<>>
    /\ result = <<>>

ParseStepTo(step) ==
    /\ parser' = step.parser
    /\ statements' = step.statements
    /\ pc' = IF step.break THEN "parsed" ELSE "parse"

ParseStep ==
    /\ pc = "parse"
    /\ ~Parser_isAtEnd(parser)
    /\ ParseStepTo(Parser_loopBody(parser, statements))
    /\ UNCHANGED <<heap, worker, app, lexer, ast, analyzer, annotatedAst, printed, reparsed,
                 edited, result>>

ParseReturn ==
    /\ pc = "parse"
    /\ Parser_isAtEnd(parser)
    /\ pc' = "parsed"
    /\ UNCHANGED <<heap, worker, app, lexer, parser, statements, ast, analyzer, annotatedAst, printed, reparsed,
                 edited, result>>

ParseNext == ParseStep \/ ParseReturn

SpecParser == ParseInit /\ [][ParseNext]_vars

(***************************************************************************)
(* Specification SpecParserRun: a program that calls parse once, on the    *)
(* tokens of a text of at most MaxTokens words, and runs it to its end:    *)
(* the call and the loop of Parser.parse are never left waiting.           *)
(***************************************************************************)
ParseRunInit ==
    /\ pc = "start"
    /\ parser = idleParser
    /\ lexer = idleLexer
    /\ statements = <<>>
    /\ ast = <<>>
    /\ analyzer = idleAnalyzer
    /\ annotatedAst = <<>>
    /\ printed = <<>>
    /\ reparsed = <<>>
    /\ edited = <<>>
    /\ worker = <<>>
    /\ app = <<>>
    /\ heap = <<>>
    /\ result = <<>>

\* parse(tokens): const parser = new Parser(tokens)
ParseCall ==
    /\ pc = "start"
    /\ \E words \in SeqsUpTo(ParseWords, MaxTokens) :
          parser' = newParser(tokenize(join(words, <<" ">>)))
    /\ pc' = "parse"
    /\ UNCHANGED <<heap, worker, app, lexer, statements, ast, analyzer, annotatedAst, printed, reparsed,
                   edited, result>>

ParseRunNext == ParseCall \/ ParseStep \/ ParseReturn

\* An iteration of the loop of Parser.parse is open exactly while parse has
\* been called and the cursor is not on EOF
ParseStepEnabled == pc = "parse" /\ ~Parser_isAtEnd(parser)

\* Weak fairness of the iteration, WF_vars(ParseStep), with ENABLED
\* <<ParseStep>>_vars written out as ParseStepEnabled: a synchronous loop is
\* not left waiting.
ParseStepFair == []<>(~ParseStepEnabled) \/ []<><<ParseStep>>_vars

SpecParserRun ==
    ParseRunInit /\ [][ParseRunNext]_vars /\ ParseStepFair /\ WF_vars(ParseReturn)

(***************************************************************************)
(* C1: tokenize is total: for every source it returns, the tokens are not  *)
(* empty, the last one is EOF with an empty lexeme, no earlier one is EOF, *)
(* and every token's type is one of the 13 members of TokenType.           *)
(***************************************************************************)
C1_TokenizeTotal ==
    /\ lexer.start <= lexer.current /\ lexer.current <= Len(lexer.source)
    /\ \A i \in DOMAIN lexer.tokens : lexer.tokens[i].type \in TokenType
    /\ pc = "tokenize" => \A i \in DOMAIN lexer.tokens : lexer.tokens[i].type # "EOF"
    /\ pc = "tokenized" =>
          LET tokens == lexer.tokens
          IN  /\ Len(tokens) >= 1
              /\ tokens[Len(tokens)].type = "EOF"
              /\ tokens[Len(tokens)].lexeme = <<>>
              /\ \A i \in 1..(Len(tokens) - 1) : tokens[i].type # "EOF"

C1_Witness ==
    /\ pc = "tokenized"
    /\ \E i \in DOMAIN lexer.tokens : lexer.tokens[i].type = "ERROR"
    /\ \E i \in DOMAIN lexer.tokens : lexer.tokens[i].type = "FLOAT"
    /\ \E i \in DOMAIN lexer.tokens : lexer.tokens[i].type = "IDENTIFIER"

(***************************************************************************)
(* C2: once parse has parsed a statement, a next token that is not EOF and *)
(* does not begin an assignment (IDENTIFIER then EQUALS) is recorded as a  *)
(* syntax error and parsing has stopped.                                   *)
(***************************************************************************)
C2_TrailingTokenIsSyntaxError ==
    (/\ pc \in {"parse", "parsed"}
     /\ Len(statements) >= 1
     /\ ~Parser_isAtEnd(parser)
     /\ ~BeginsAssignment(parser))
    => (pc = "parsed" /\ Len(parser.errors) >= 1)

(***************************************************************************)
(* C3: parse never records a second syntax error: its errors list has      *)
(* length 0 or 1 at every point of every run.                              *)
(***************************************************************************)
C3_AtMostOneSyntaxError == Len(parser.errors) <= 1

C3_Witness ==
    /\ pc = "parsed"
    /\ Len(parser.errors) = 1
    /\ Len(statements) >= 1
    /\ parser.current + 2 < Len(parser.tokens)   \* tokens are left after the failure

(***************************************************************************)
(* C4: when a statement fails to parse, parse has stopped, and the ast is  *)
(* what the tokens before the failing statement parse to on their own,     *)
(* without error: the failing statement and everything after it add        *)
(* nothing.                                                                *)
(***************************************************************************)
\* The first k tokens followed by the EOF token
TokensBefore(tokens, k) == Append(SubSeq(tokens, 1, k), tokens[Len(tokens)])

BinaryOperators == {<<"+">>, <<"-">>, <<"*">>, <<"/">>, <<"^">>}
UnaryOperators  == {<<"-">>, <<"+">>}

\* The operands of the generated expressions, in source order
OperandWords == << <<"a">>, <<"2">>, <<"c">>, <<"4">>, <<"e">>, <<"6">>, <<"g">>, <<"8">> >>

OperandTree(word) ==
    IF isDigit(word[1])
    THEN [kind |-> "Literal", value |-> parseFloat(word), dataType |-> "Integer"]
    ELSE [kind |-> "Variable", name |-> word]

\* The trees with n operands (OperandWords[first], ...) and k operators
RECURSIVE ExprTrees(_, _, _)
ExprTrees(n, k, first) ==
    (IF n = 1 /\ k = 0 THEN {OperandTree(OperandWords[first])} ELSE {})
    \cup
    (IF k >= n
     THEN {[kind |-> "UnaryExpr", operator |-> op, operand |-> t] :
              op \in UnaryOperators, t \in ExprTrees(n, k - 1, first)}
     ELSE {})
    \cup
    UNION {UNION {{[kind |-> "BinaryExpr", operator |-> op, left |-> l, right |-> r] :
                      op \in BinaryOperators,
                      l \in ExprTrees(nl, kl, first),
                      r \in ExprTrees(n - nl, k - 1 - kl, first + nl)} :
                  kl \in (nl - 1)..(k - 1 - (n - nl - 1))} :
           nl \in 1..(n - 1)}

AllExprTrees == UNION {UNION {ExprTrees(n, k, 1) : n \in 1..(k + 1)} : k \in 0..MaxOps}

\* The level of the reference grammar that derives a tree without parentheses
RefLevel(t) ==
    CASE t.kind = "BinaryExpr" /\ t.operator \in {<<"+">>, <<"-">>} -> 1   \* additive
      [] t.kind = "BinaryExpr" /\ t.operator \in {<<"*">>, <<"/">>} -> 2   \* multiplicative
      [] t.kind = "BinaryExpr" /\ t.operator = <<"^">>              -> 3   \* power
      [] t.kind = "UnaryExpr"                                       -> 4   \* unary
      [] OTHER                                                      -> 5   \* primary

Max(a, b) == IF a >= b THEN a ELSE b

\* The words of tree t where the reference grammar asks for level `level` or
\* above: t in parentheses when its own level is below.  Operands are also put
\* in (redundant) parentheses when their level is below `floor`.
RECURSIVE RefWords(_, _, _)
RefWords(t, level, floor) ==
    LET inner ==
            CASE t.kind = "BinaryExpr" /\ RefLevel(t) = 1 ->
                     RefWords(t.left, Max(1, floor), floor) \o <<t.operator>>
                         \o RefWords(t.right, Max(2, floor), floor)
              [] t.kind = "BinaryExpr" /\ RefLevel(t) = 2 ->
                     RefWords(t.left, Max(2, floor), floor) \o <<t.operator>>
                         \o RefWords(t.right, Max(3, floor), floor)
              [] t.kind = "BinaryExpr" /\ RefLevel(t) = 3 ->
                     RefWords(t.left, Max(4, floor), floor) \o <<t.operator>>
                         \o RefWords(t.right, Max(3, floor), floor)
              [] t.kind = "UnaryExpr" ->
                     <<t.operator>> \o RefWords(t.operand, Max(4, floor), floor)
              [] t.kind = "Variable" -> <<t.name>>
              [] t.kind = "Literal"  -> <<NatToChars(t.value.int)>>
    IN  IF RefLevel(t) < level THEN << <<"(">> >> \o inner \o << <<")">> >> ELSE inner

RefFloors == 1..5

\* The lexemes of the tokens before EOF
Lexemes(tokens) == [i \in 1..(Len(tokens) - 1) |-> tokens[i].lexeme]

ExprInit ==
    /\ pc = "parse"
    /\ \E t \in AllExprTrees, floor \in RefFloors :
          parser = newParser(tokenize(join(RefWords(t, 1, floor), <<" ">>)))
    /\ lexer = idleLexer
    /\ statements = <<>>
    /\ ast = <<>>
    /\ analyzer = idleAnalyzer
    /\ annotatedAst = <<>>
    /\ printed = <<>>
    /\ reparsed = <<>>
    /\ edited = <<>>
    /\ worker = <<>>
    /\ app = <<>>
    /\ heap = <<>>
    /\ result = <<>>

SpecExpr == ExprInit /\ [][ParseNext]_vars

(***************************************************************************)
(* C5: for every expression the AST parse builds is the tree of the        *)
(* reference grammar: no error, one statement, and writing that statement  *)
(* out by the reference grammar (with the same redundant parentheses)      *)
(* gives the very tokens parse was given.                                  *)
(***************************************************************************)
C5_PrecedenceAndAssociativity ==
    pc = "parsed" =>
        /\ parser.errors = <<>>
        /\ Len(statements) = 1
        /\ \E floor \in RefFloors :
              RefWords(StripPositions(statements[1]), 1, floor) = Lexemes(parser.tokens)

\* a ^ b ^ c, - a ^ b, a - b - c and a * ( b + c ) among the inputs
C5_Witness ==
    /\ pc = "parsed"
    /\ Len(statements) = 1
    /\ statements[1].kind = "BinaryExpr"
    /\ statements[1].operator = <<"^">>
    /\ statements[1].left.kind = "UnaryExpr"
    /\ statements[1].right.kind = "BinaryExpr"
    /\ statements[1].right.operator = <<"^">>
    /\ Len(parser.tokens) = 7

(***************************************************************************)
(* Specification SpecRoundTrip: the round-trip test of the pretty printer  *)
(* (describe 'Property 2: Parser Round-Trip'): a text of at most MaxTokens *)
(* words of RoundTripWords is parsed, one statement of the result is       *)
(* printed by printAST, and the text printed is tokenized and parsed.      *)
(***************************************************************************)
RoundTripWords ==
    {<<"x">>, <<"7">>, <<"2", ".", "0">>, <<"1", ".", "5">>,
     <<"=">>, <<"-">>, <<"(">>, <<")">>}

RoundTripInit ==
    /\ pc = "parse"
    /\ \E words \in SeqsUpTo(RoundTripWords, MaxTokens) :
          parser = newParser(tokenize(join(words, <<" ">>)))
    /\ lexer = idleLexer
    /\ statements = <<>>
    /\ ast = <<>>
    /\ analyzer = idleAnalyzer
    /\ annotatedAst = <<>>
    /\ printed = <<>>
    /\ reparsed = <<>>
    /\ edited = <<>>
    /\ worker = <<>>
    /\ app = <<>>
    /\ heap = <<>>
    /\ result = <<>>

\* const sourceText = printAST(originalAst), for an AST of an input without error
PrintStep ==
    /\ pc = "parsed"
    /\ parser.errors = <<>>
    /\ \A i \in DOMAIN parser.tokens : parser.tokens[i].type # "ERROR"
    /\ \E i \in DOMAIN statements :
          printed' = [node |-> statements[i], text |-> printAST(statements[i])]
    /\ pc' = "printed"
    /\ UNCHANGED <<heap, worker, app, lexer, parser, statements, ast, analyzer, annotatedAst, reparsed,
                 edited, result>>

\* const { ast, errors } = parse(tokenize(sourceText))
ReparseStep ==
    /\ pc = "printed"
    /\ reparsed' = parse(tokenize(printed.text))
    /\ pc' = "reparsed"
    /\ UNCHANGED <<heap, worker, app, lexer, parser, statements, ast, analyzer, annotatedAst, printed,
                 edited, result>>

RoundTripNext == ParseStep \/ ParseReturn \/ PrintStep \/ ReparseStep

SpecRoundTrip == RoundTripInit /\ [][RoundTripNext]_vars

(***************************************************************************)
(* C6: printing an AST that parse produced from valid input and parsing    *)
(* the text again gives no error and exactly one AST, structurally equal   *)
(* to the one printed (positions ignored).                                 *)
(***************************************************************************)
C6_RoundTrip ==
    pc = "reparsed" =>
        /\ reparsed.errors = <<>>
        /\ Len(reparsed.ast) = 1
        /\ astEqual(printed.node, reparsed.ast[1])

(***************************************************************************)
(* analyze(ast) step by step: one action per iteration of the loop of      *)
(* SemanticAnalyzer.analyze, and one for its return.                       *)
(***************************************************************************)
AnalyzeStepTo(step) ==
    /\ analyzer' = step.analyzer
    /\ annotatedAst' = step.annotatedAst

AnalyzeStep ==
    /\ pc = "analyze"
    /\ Len(annotatedAst) < Len(ast)
    /\ AnalyzeStepTo(SemanticAnalyzer_loopBody(analyzer, annotatedAst,
                                               ast[Len(annotatedAst) + 1]))
    /\ UNCHANGED <<heap, worker, app, pc, lexer, parser, statements, ast, printed, reparsed,
                 edited, result>>

AnalyzeReturn ==
    /\ pc = "analyze"
    /\ Len(annotatedAst) = Len(ast)
    /\ pc' = "analyzed"
    /\ UNCHANGED <<heap, worker, app, lexer, parser, statements, ast, analyzer, annotatedAst, printed, reparsed,
                 edited, result>>

AnalyzeNext == AnalyzeStep \/ AnalyzeReturn

\* The state when analyze is called on the AST of a program text
AnalyzeInit(programs) ==
    /\ pc = "analyze"
    /\ \E lines \in programs : ast = parse(tokenize(join(lines, <<"\n">>))).ast
    /\ analyzer = newAnalyzer
    /\ annotatedAst = <<>>
    /\ lexer = idleLexer
    /\ parser = idleParser
    /\ statements = <<>>
    /\ printed = <<>>
    /\ reparsed = <<>>
    /\ edited = <<>>
    /\ worker = <<>>
    /\ app = <<>>
    /\ heap = <<>>
    /\ result = <<>>

(***************************************************************************)
(* Specification SpecPromotion: analyze on the AST of the programs that    *)
(* give x and y a type (or leave them undefined) and then hold one         *)
(* expression statement with one or two binary operators.                  *)
(***************************************************************************)
I1  == <<"1">>
I2  == <<"2">>
F05 == <<"0", ".", "5">>
F25 == <<"2", ".", "5">>

PromotionPreludes ==
    {px \o py : px \in {<<>>, << <<"x", " ", "=", " ">> \o I1 >>, << <<"x", " ", "=", " ">> \o F25 >>},
                py \in {<<>>, << <<"y", " ", "=", " ">> \o I2 >>, << <<"y", " ", "=", " ">> \o F05 >>}}

PromotionOperands ==
    {I1, I2, F05, F25, <<"x">>, <<"y">>, <<"-", " ">> \o I1, <<"-", " ">> \o F25}

NestedOperands == {I1, F25, <<"x">>}

PromotionExprs ==
    {join(<<l, op, r>>, <<" ">>) :
        l \in PromotionOperands, op \in BinaryOperators, r \in PromotionOperands}
    \cup
    {join(<<a, op1, b, op2, c>>, <<" ">>) :
        a \in NestedOperands, op1 \in BinaryOperators, b \in NestedOperands,
        op2 \in BinaryOperators, c \in NestedOperands}

PromotionPrograms == {prelude \o <<e>> : prelude \in PromotionPreludes, e \in PromotionExprs}

PromotionInit == AnalyzeInit(PromotionPrograms)

SpecPromotion == PromotionInit /\ [][AnalyzeNext]_vars

(***************************************************************************)
(* Specification SpecSemantic: analyze on the AST of every program of at   *)
(* most MaxStmts statements, each an expression over x and y or the        *)
(* assignment of one to x or to y.                                         *)
(***************************************************************************)
SemNames == {<<"x">>, <<"y">>}

SemExprs ==
    {I2, F25, <<"x">>, <<"y">>,
     join(<< <<"x">>, <<"+">>, <<"y">>, <<"*">>, <<"x">> >>, <<" ">>)}

SemStatements ==
    SemExprs \cup {join(<<name, <<"=">>, e>>, <<" ">>) : name \in SemNames, e \in SemExprs}

SemanticInit == AnalyzeInit(SeqsUpTo(SemStatements, MaxStmts))

SpecSemantic == SemanticInit /\ [][AnalyzeNext]_vars

\* The nodes of a tree
RECURSIVE Subnodes(_)
Subnodes(node) ==
    {node} \cup
    CASE node.kind = "Assignment" -> Subnodes(node.value)
      [] node.kind = "BinaryExpr" -> Subnodes(node.left) \cup Subnodes(node.right)
      [] node.kind = "UnaryExpr"  -> Subnodes(node.operand)
      [] OTHER                    -> {}

\* The Variable nodes of a tree in the order analyzeNode visits them
RECURSIVE VariablesOf(_)
VariablesOf(node) ==
    CASE node.kind = "Assignment" -> VariablesOf(node.value)
      [] node.kind = "BinaryExpr" -> VariablesOf(node.left) \o VariablesOf(node.right)
      [] node.kind = "UnaryExpr"  -> VariablesOf(node.operand)
      [] node.kind = "Variable"   -> <<node>>
      [] OTHER                    -> <<>>

AnnotatedBinaryExprs ==
    {n \in UNION {Subnodes(annotatedAst[i]) : i \in DOMAIN annotatedAst} :
        n.kind = "BinaryExpr"}

BothResolved(n) ==
    resolvedTypeOf(n.left) # undefined /\ resolvedTypeOf(n.right) # undefined

(***************************************************************************)
(* C7: a BinaryExpr whose two operands both resolved to a type gets        *)
(* resolvedType Float when its operator is / ; for + - * ^ it gets Float   *)
(* when at least one operand is Float and Integer only when both are       *)
(* Integer.  Two such nodes with the same operator and the same operand    *)
(* types, in the same or in swapped order, get the same type whatever      *)
(* their operands' values.                                                 *)
(***************************************************************************)
C7_TypePromotion ==
    /\ \A n \in AnnotatedBinaryExprs :
          BothResolved(n) =>
             resolvedTypeOf(n) =
                IF n.operator = <<"/">> THEN "Float"
                ELSE IF "Float" \in {resolvedTypeOf(n.left), resolvedTypeOf(n.right)}
                     THEN "Float"
                     ELSE "Integer"
    /\ \A m, n \in AnnotatedBinaryExprs :
          (/\ BothResolved(m) /\ BothResolved(n)
           /\ m.operator = n.operator
           /\ \/ /\ resolvedTypeOf(m.left) = resolvedTypeOf(n.left)
                 /\ resolvedTypeOf(m.right) = resolvedTypeOf(n.right)
              \/ /\ resolvedTypeOf(m.left) = resolvedTypeOf(n.right)
                 /\ resolvedTypeOf(m.right) = resolvedTypeOf(n.left))
          => resolvedTypeOf(m) = resolvedTypeOf(n)

\* x = 1 and then 1 / x * 1: the division of two Integers is Float, and the
\* product of that Float and an Integer is Float
C7_Witness ==
    /\ pc = "analyzed"
    /\ \E n \in AnnotatedBinaryExprs :
          /\ n.operator = <<"*">>
          /\ n.left.kind = "BinaryExpr" /\ n.left.operator = <<"/">>
          /\ resolvedTypeOf(n.left.left) = "Integer"
          /\ n.left.right.kind = "Variable"
          /\ resolvedTypeOf(n.left.right) = "Integer"
          /\ resolvedTypeOf(n.left) = "Float"
          /\ resolvedTypeOf(n.right) = "Integer"
          /\ resolvedTypeOf(n) = "Float"

\* The errors analyzeVariable records for the Variable nodes `nodes` (in visiting
\* order) that have no entry in `table`
RECURSIVE UndefinedVariableErrors(_, _)
UndefinedVariableErrors(nodes, table) ==
    IF nodes = <<>> THEN <<>>
    ELSE (IF Map_has(table, Head(nodes).name) THEN <<>>
          ELSE << [phase        |-> "semantic",
                   message      |-> <<"Undefined variable '", Head(nodes).name, "'">>,
                   position     |-> Head(nodes).position,
                   variableName |-> Head(nodes).name] >>)
         \o UndefinedVariableErrors(Tail(nodes), table)

(***************************************************************************)
(* C8: analysing a statement appends to errors exactly one semantic error  *)
(* for each Variable node of it whose name has no symbol-table entry when  *)
(* it is visited, occurrence by occurrence, with variableName the name and *)
(* position the position of the reference, and appends nothing else; and   *)
(* analyze returns only after every statement has been analysed.           *)
(***************************************************************************)
C8_OneErrorPerUndefinedOccurrence ==
    /\ [][Len(annotatedAst') = Len(annotatedAst) + 1 =>
             analyzer'.errors =
                analyzer.errors \o
                UndefinedVariableErrors(VariablesOf(ast[Len(annotatedAst) + 1]),
                                        analyzer.symbolTable)]_vars
    /\ [](pc = "analyzed" => Len(annotatedAst) = Len(ast))

\* the same missing name referenced in three statements gives three errors, one
\* at each reference
C8_Witness ==
    /\ pc = "analyzed"
    /\ Len(analyzer.errors) = 3
    /\ \A i \in 1..3 :
          /\ analyzer.errors[i].variableName = <<"x">>
          /\ analyzer.errors[i].position.line = i
          /\ ast[i].kind = "Variable"

\* Statement j of the analysed statements is an assignment to name whose value
\* resolved to a type
AssignsResolved(j, name) ==
    /\ ast[j].kind = "Assignment"
    /\ ast[j].name = name
    /\ getResolvedType(annotatedAst[j]) # undefined

HasErrorAt(node) ==
    \E i \in DOMAIN analyzer.errors :
        /\ analyzer.errors[i].position = node.position
        /\ analyzer.errors[i].variableName = node.name

(***************************************************************************)
(* C9: a reference to name v in statement k resolves to a type and gives   *)
(* no error if and only if an earlier statement j < k is an assignment to  *)
(* v whose value resolved to a type; otherwise it has no resolved type and *)
(* an error is recorded at its position.  An assignment in statement k     *)
(* itself or in a later statement does not count.                          *)
(***************************************************************************)
C9_DefinedOnlyByEarlierStatement ==
    \A k \in DOMAIN annotatedAst :
        \A n \in {m \in Subnodes(annotatedAst[k]) : m.kind = "Variable"} :
            IF \E j \in 1..(k - 1) : AssignsResolved(j, n.name)
            THEN resolvedTypeOf(n) # undefined /\ ~HasErrorAt(n)
            ELSE resolvedTypeOf(n) = undefined /\ HasErrorAt(n)

\* x = x + y * x with no earlier x or y, then y = 2, then x: the references to
\* x in statement 1 and the one in statement 3 are undefined, and so is the y
\* of statement 1, which statement 2 assigns afterwards
C9_Witness ==
    /\ pc = "analyzed"
    /\ Len(ast) = 3
    /\ ast[1].kind = "Assignment" /\ ast[1].name = <<"x">>
    /\ ast[1].value.kind = "BinaryExpr"
    /\ ast[1].value.left.kind = "Variable" /\ ast[1].value.left.name = <<"x">>
    /\ ast[1].value.right.kind = "BinaryExpr"
    /\ ast[1].value.right.left.kind = "Variable"
    /\ ast[1].value.right.left.name = <<"y">>
    /\ AssignsResolved(2, <<"y">>)
    /\ ast[3].kind = "Variable" /\ ast[3].name = <<"x">>
    /\ Len(analyzer.errors) = 4
    /\ analyzer.errors[2].variableName = <<"y">>
    /\ analyzer.errors[4].position = ast[3].position

(***************************************************************************)
(* C10: the symbol table has at most one entry per name; a name has an     *)
(* entry exactly when some analysed statement assigned it a value that     *)
(* resolved to a type, and the entry holds the type and the position of    *)
(* the last such assignment.  No error is recorded at an assignment: every *)
(* error sits at a Variable reference.                                     *)
(***************************************************************************)
C10_LastAssignmentWins ==
    LET table == analyzer.symbolTable
        done  == DOMAIN annotatedAst
    IN  /\ \A i, j \in DOMAIN table : table[i].name = table[j].name => i = j
        /\ \A i \in DOMAIN table : \E j \in done : AssignsResolved(j, table[i].name)
        /\ \A j \in done :
              (/\ ast[j].kind = "Assignment"
               /\ getResolvedType(annotatedAst[j]) # undefined
               /\ \A l \in done : l > j => ~AssignsResolved(l, ast[j].name))
              => \E i \in DOMAIN table :
                     table[i] = [name      |-> ast[j].name,
                                 type      |-> getResolvedType(annotatedAst[j]),
                                 definedAt |-> ast[j].position]
        /\ \A e \in DOMAIN analyzer.errors :
              \E j \in done :
                 \E n \in Subnodes(ast[j]) :
                    /\ n.kind = "Variable"
                    /\ n.position = analyzer.errors[e].position
                    /\ n.name = analyzer.errors[e].variableName

\* x = 2, then x = 2.5, then x = y with y undefined: the entry of x is the Float
\* of line 2, and the only error is the one for y
C10_Witness ==
    /\ pc = "analyzed"
    /\ Len(ast) = 3
    /\ AssignsResolved(1, <<"x">>) /\ getResolvedType(annotatedAst[1]) = "Integer"
    /\ AssignsResolved(2, <<"x">>) /\ getResolvedType(annotatedAst[2]) = "Float"
    /\ ast[3].kind = "Assignment" /\ ast[3].name = <<"x">>
    /\ getResolvedType(annotatedAst[3]) = undefined
    /\ analyzer.symbolTable =
          << [name |-> <<"x">>, type |-> "Float", definedAt |-> [line |-> 2, column |-> 1]] >>
    /\ Len(analyzer.errors) = 1
    /\ analyzer.errors[1].variableName = <<"y">>

(***************************************************************************)
(* C11: analysing an assignment whose value expression resolves to no type *)
(* leaves the symbol table exactly as it was: no entry is created for the  *)
(* target name, and an entry the target already had keeps its type and its *)
(* definedAt.                                                              *)
(***************************************************************************)
C11_UnresolvedAssignmentKeepsTable ==
    [][(/\ Len(annotatedAst') = Len(annotatedAst) + 1
        /\ ast[Len(annotatedAst) + 1].kind = "Assignment"
        /\ getResolvedType(annotatedAst'[Len(annotatedAst) + 1]) = undefined)
       => analyzer'.symbolTable = analyzer.symbolTable]_vars

\* x = 2.5, then x = y and y = y with y undefined: x keeps the Float entry of
\* line 1 and y gets no entry
C11_Witness ==
    /\ pc = "analyzed"
    /\ Len(ast) = 3
    /\ AssignsResolved(1, <<"x">>)
    /\ ast[2].kind = "Assignment" /\ ast[2].name = <<"x">>
    /\ getResolvedType(annotatedAst[2]) = undefined
    /\ ast[3].kind = "Assignment" /\ ast[3].name = <<"y">>
    /\ ast[3].value.kind = "Variable" /\ ast[3].value.name = <<"y">>
    /\ getResolvedType(annotatedAst[3]) = undefined
    /\ analyzer.symbolTable =
          << [name |-> <<"x">>, type |-> "Float", definedAt |-> [line |-> 1, column |-> 1]] >>

\* A node without the resolvedType analyze added, at every depth
RECURSIVE Unannotated(_)
Unannotated(node) ==
    LET bare == [f \in DOMAIN node \ {"resolvedType"} |-> node[f]]
    IN  CASE node.kind = "Assignment" -> [bare EXCEPT !.value = Unannotated(node.value)]
          [] node.kind = "BinaryExpr" -> [bare EXCEPT !.left = Unannotated(node.left),
                                                      !.right = Unannotated(node.right)]
          [] node.kind = "UnaryExpr"  -> [bare EXCEPT !.operand = Unannotated(node.operand)]
          [] OTHER                    -> bare

ExpressionKinds == {"Literal", "Variable", "UnaryExpr", "BinaryExpr"}

(***************************************************************************)
(* C12: when analyze returns with no semantic error, every Literal,        *)
(* Variable, UnaryExpr and BinaryExpr node at every depth of annotatedAst  *)
(* carries a resolvedType (Integer or Float), and annotatedAst holds the   *)
(* statements of the input, as many and in the same order.                 *)
(***************************************************************************)
C12_AnnotationComplete ==
    (pc = "analyzed" /\ analyzer.errors = <<>>) =>
        /\ Len(annotatedAst) = Len(ast)
        /\ \A i \in DOMAIN annotatedAst :
              /\ Unannotated(annotatedAst[i]) = ast[i]
              /\ \A n \in Subnodes(annotatedAst[i]) :
                    n.kind \in ExpressionKinds =>
                       resolvedTypeOf(n) \in {"Integer", "Float"}

\* x = 1, y = 0.5, then x * - 2.5: three statements, no error, and a BinaryExpr
\* over a Variable and a UnaryExpr
C12_Witness ==
    /\ pc = "analyzed"
    /\ analyzer.errors = <<>>
    /\ Len(annotatedAst) = 3
    /\ annotatedAst[3].kind = "BinaryExpr"
    /\ annotatedAst[3].left.kind = "Variable"
    /\ resolvedTypeOf(annotatedAst[3].left) = "Integer"
    /\ annotatedAst[3].right.kind = "UnaryExpr"
    /\ annotatedAst[3].right.operand.kind = "Literal"
    /\ resolvedTypeOf(annotatedAst[3]) = "Float"

\* The characters scanToken has a case for
WhitespaceChars == {" ", "\r", "\t", "\n"}
OperatorChars   == {"+", "-", "*", "/", "^", "(", ")", "="}

Unrecognized(c) ==
    /\ c \notin WhitespaceChars
    /\ c \notin OperatorChars
    /\ ~isDigit(c)
    /\ ~isAlpha(c)

CountTokens(tokens, type) == Cardinality({i \in DOMAIN tokens : tokens[i].type = type})

\* A lexer about to scan `source` as the text that follows position (line, column)
LexerStartingAt(source, line, column) ==
    [newLexer(source) EXCEPT !.line = line, !.column = column, !.startColumn = column]

DigitRunEnd(source, i) ==
    CHOOSE j \in i..Len(source) :
        /\ \A k \in i..j : isDigit(source[k])
        /\ j = Len(source) \/ ~isDigit(source[j + 1])

\* A maximal digit run ending at j is followed by `.` and a digit
DotDigitAfter(source, j) ==
    j + 2 <= Len(source) /\ source[j + 1] = "." /\ isDigit(source[j + 2])

(***************************************************************************)
(* C14: a step of the scan that starts at a digit emits FLOAT exactly when *)
(* the maximal digit run is followed by `.` and a digit, with lexeme the   *)
(* digits, the `.` and the maximal second digit run; otherwise it emits    *)
(* INTEGER with the maximal digit run as lexeme, and a `.` that follows is *)
(* left to the next step, which emits it as an ERROR token.  A token has a *)
(* literal field exactly when it is INTEGER or FLOAT.                      *)
(***************************************************************************)
C14_NumberRule ==
    /\ [][(pc = "tokenize" /\ ~Lexer_isAtEnd(lexer)
           /\ isDigit(lexer.source[lexer.current + 1]))
          => LET first  == lexer.current + 1
                 intEnd == DigitRunEnd(lexer.source, first)
                 float  == DotDigitAfter(lexer.source, intEnd)
                 last   == IF float THEN DigitRunEnd(lexer.source, intEnd + 2) ELSE intEnd
                 token  == lexer'.tokens[Len(lexer'.tokens)]
             IN  /\ Len(lexer'.tokens) = Len(lexer.tokens) + 1
                 /\ token.type = (IF float THEN "FLOAT" ELSE "INTEGER")
                 /\ token.lexeme = SubSeq(lexer.source, first, last)
                 /\ lexer'.current = last
                 /\ (~float /\ last < Len(lexer.source) /\ lexer.source[last + 1] = ".")
                       => LET next == Lexer_loopBody(lexer').tokens
                          IN  /\ Len(next) = Len(lexer'.tokens) + 1
                              /\ next[Len(next)].type = "ERROR"
                              /\ next[Len(next)].lexeme = <<".">>
         ]_vars
    /\ [](\A i \in DOMAIN lexer.tokens :
             ("literal" \in DOMAIN lexer.tokens[i])
                <=> lexer.tokens[i].type \in {"INTEGER", "FLOAT"})

\* "1.1.1": FLOAT 1.1, ERROR `.`, INTEGER 1
C14_Witness ==
    /\ pc = "tokenized"
    /\ Len(lexer.tokens) = 4
    /\ lexer.tokens[1].type = "FLOAT" /\ lexer.tokens[1].lexeme = <<"1", ".", "1">>
    /\ lexer.tokens[2].type = "ERROR" /\ lexer.tokens[2].lexeme = <<".">>
    /\ lexer.tokens[3].type = "INTEGER" /\ lexer.tokens[3].lexeme = <<"1">>
    /\ "literal" \notin DOMAIN lexer.tokens[2]

(***************************************************************************)
(* Specification SpecWhitespace: the whitespace test of the lexer          *)
(* ('Property 4: Whitespace Transparency').  A source of at most MaxSrcLen *)
(* characters is scanned step by step; between two steps of the scan, that *)
(* is at a boundary between tokens or whitespace, the test makes a second  *)
(* source by inserting one whitespace character there, or by removing the  *)
(* whitespace character that comes next, and tokenizes it.                 *)
(***************************************************************************)
WsAlphabet == {"1", "x", ".", "+", " "}

InsertedWhitespace == {" ", "\n"}

\* The character of source at offset i (from 0), NUL outside the source
CharAt(source, i) == IF i >= 0 /\ i < Len(source) THEN source[i + 1] ELSE NUL

WsInit ==
    /\ pc = "tokenize"
    /\ \E source \in SeqsUpTo(WsAlphabet, MaxSrcLen) : lexer = newLexer(source)
    /\ parser = idleParser
    /\ statements = <<>>
    /\ ast = <<>>
    /\ analyzer = idleAnalyzer
    /\ annotatedAst = <<>>
    /\ printed = <<>>
    /\ reparsed = <<>>
    /\ edited = <<>>
    /\ worker = <<>>
    /\ app = <<>>
    /\ heap = <<>>
    /\ result = <<>>

Edit(kind, source) ==
    /\ edited' = [kind   |-> kind,
                  before |-> CharAt(lexer.source, lexer.current - 1),
                  after  |-> CharAt(lexer.source,
                                    IF kind = "insert" THEN lexer.current
                                    ELSE lexer.current + 1),
                  source |-> source,
                  tokens |-> tokenize(source)]
    /\ pc' = "edited"
    /\ UNCHANGED <<heap, worker, app, lexer, parser, statements, ast, analyzer, annotatedAst, printed,
                   reparsed, result>>

InsertWhitespace ==
    /\ pc = "tokenize"
    /\ \E ws \in InsertedWhitespace :
          Edit("insert", substring(lexer.source, 0, lexer.current) \o <<ws>>
                         \o substring(lexer.source, lexer.current, Len(lexer.source)))

RemoveWhitespace ==
    /\ pc = "tokenize"
    /\ CharAt(lexer.source, lexer.current) \in WhitespaceChars
    /\ Edit("remove", substring(lexer.source, 0, lexer.current)
                      \o substring(lexer.source, lexer.current + 1, Len(lexer.source)))

WsNext == TokenizeStep \/ TokenizeReturn \/ InsertWhitespace \/ RemoveWhitespace

SpecWhitespace == WsInit /\ [][WsNext]_vars

\* The types and literal values of the tokens before EOF
TypesAndLiterals(tokens) ==
    [i \in 1..(Len(tokens) - 1) |->
        [type    |-> tokens[i].type,
         literal |-> IF "literal" \in DOMAIN tokens[i] THEN tokens[i].literal
                     ELSE noLiteral]]

SameTypesAndLiterals ==
    TypesAndLiterals(edited.tokens) = TypesAndLiterals(tokenize(lexer.source))

ScanAlphabet == {"1", "x", " ", "\t", "\n", FF}

ScanInit ==
    /\ pc = "tokenize"
    /\ \E source \in SeqsUpTo(ScanAlphabet, MaxSrcLen) : lexer = newLexer(source)
    /\ parser = idleParser
    /\ statements = <<>>
    /\ ast = <<>>
    /\ analyzer = idleAnalyzer
    /\ annotatedAst = <<>>
    /\ printed = <<>>
    /\ reparsed = <<>>
    /\ edited = <<>>
    /\ worker = <<>>
    /\ app = <<>>
    /\ heap = <<>>
    /\ result = <<>>

SpecScan == ScanInit /\ [][LexNext]_vars

\* The characters String.prototype.trim strips, as far as a source can hold them
\* here (it also strips U+00A0, U+FEFF, the Unicode space separators and the line
\* and paragraph separators)
TrimmedChars == {" ", "\t", "\n", "\r", VT, FF}

\* String.prototype.trim
RECURSIVE trimStart(_)
trimStart(s) ==
    IF s # <<>> /\ Head(s) \in TrimmedChars THEN trimStart(Tail(s)) ELSE s

RECURSIVE trimEnd(_)
trimEnd(s) ==
    IF s # <<>> /\ s[Len(s)] \in TrimmedChars
    THEN trimEnd(SubSeq(s, 1, Len(s) - 1))
    ELSE s

trim(s) == trimEnd(trimStart(s))

(***************************************************************************)
(* C16: tokenize never emits a token for whitespace: every token other     *)
(* than EOF has a lexeme that trim() leaves as it is, so no lexeme is made *)
(* only of whitespace.                                                     *)
(***************************************************************************)
C16_NoWhitespaceToken ==
    \A i \in DOMAIN lexer.tokens :
        lexer.tokens[i].type # "EOF" =>
            /\ trim(lexer.tokens[i].lexeme) = lexer.tokens[i].lexeme
            /\ lexer.tokens[i].lexeme # <<>>

\* The first offset at or after `from` that holds no character scanToken skips
SkipWhitespace(source, from) ==
    CHOOSE k \in from..Len(source) :
        /\ k = Len(source) \/ source[k + 1] \notin WhitespaceChars
        /\ \A j \in from..(k - 1) : source[j + 1] \in WhitespaceChars

\* The offsets (from 0) in source of the first characters of the tokens: each
\* token's lexeme stands at the first character after the token before it that
\* is not skipped; EOF stands at the end
RECURSIVE OffsetsFrom(_, _, _)
OffsetsFrom(source, tokens, from) ==
    IF tokens = <<>> THEN <<>>
    ELSE LET offset == SkipWhitespace(source, from)
         IN  <<offset>> \o OffsetsFrom(source, Tail(tokens),
                                       offset + Len(Head(tokens).lexeme))

TokenOffsets == OffsetsFrom(lexer.source, lexer.tokens, 0)

\* The tokens stand in the source where TokenOffsets says
LexemesAtOffsets ==
    \A i \in DOMAIN lexer.tokens :
        substring(lexer.source, TokenOffsets[i],
                  TokenOffsets[i] + Len(lexer.tokens[i].lexeme)) = lexer.tokens[i].lexeme

NewlinesIn(source, from, to) ==
    Cardinality({k \in from..(to - 1) : source[k + 1] = "\n"})

(***************************************************************************)
(* C17: every token has line >= 1 and column >= 1; the lines of the tokens *)
(* never decrease along the sequence; and when at least one newline lies   *)
(* between two consecutive tokens, the later token's line is strictly      *)
(* greater than the earlier one's.                                         *)
(***************************************************************************)
C17_PositionsValidAndLinesMonotonic ==
    /\ LexemesAtOffsets
    /\ \A i \in DOMAIN lexer.tokens :
          /\ lexer.tokens[i].position.line >= 1
          /\ lexer.tokens[i].position.column >= 1
    /\ \A i \in 1..(Len(lexer.tokens) - 1) :
          /\ lexer.tokens[i].position.line <= lexer.tokens[i + 1].position.line
          /\ NewlinesIn(lexer.source, TokenOffsets[i], TokenOffsets[i + 1]) >= 1
                => lexer.tokens[i].position.line < lexer.tokens[i + 1].position.line

\* "x\n\n1" and the like: two tokens with two newlines between them
C17_Witness ==
    /\ pc = "tokenized"
    /\ Len(lexer.tokens) = 3
    /\ NewlinesIn(lexer.source, TokenOffsets[1], TokenOffsets[2]) = 2
    /\ lexer.tokens[1].position.line = 1
    /\ lexer.tokens[2].position.line = 3

\* The position of the character of source at `offset`
PositionOfOffset(source, offset) ==
    LET newlines == {k \in 1..offset : source[k] = "\n"}
        lineStart == IF newlines = {} THEN 0
                     ELSE CHOOSE k \in newlines : \A j \in newlines : j <= k
    IN  Position(1 + Cardinality(newlines), 1 + (offset - lineStart))

(***************************************************************************)
(* C18: a token's position is the position of its first character: line 1  *)
(* plus the newlines before it, column 1 plus the characters between the   *)
(* preceding newline (or the start of the input) and it, a tab counting as *)
(* one column like every character; EOF has the position just after the    *)
(* last character of the input.                                            *)
(***************************************************************************)
C18_PositionOfFirstCharacter ==
    /\ LexemesAtOffsets
    /\ \A i \in DOMAIN lexer.tokens :
          lexer.tokens[i].position = PositionOfOffset(lexer.source, TokenOffsets[i])
    /\ pc = "tokenized" =>
          /\ TokenOffsets[Len(lexer.tokens)] = Len(lexer.source)
          /\ lexer.tokens[Len(lexer.tokens)].position =
                PositionOfOffset(lexer.source, Len(lexer.source))

\* "\n\tx1 ": the two-character token x1 at line 2, column 2 after a tab, and
\* EOF at column 5
C18_Witness ==
    /\ pc = "tokenized"
    /\ lexer.source = <<"\n", "\t", "x", "1", " ">>
    /\ Len(lexer.tokens) = 2
    /\ lexer.tokens[1].lexeme = <<"x", "1">>
    /\ lexer.tokens[1].position = Position(2, 2)
    /\ lexer.tokens[2].position = Position(2, 5)

\* What one iteration of the loop of Parser.parse does to the cursor: it
\* leaves the loop or stands further right than it started
IterationConsumesOrEnds ==
    (pc = "parse" /\ ~Parser_isAtEnd(parser)) =>
        \/ Parser_loopBody(parser, statements).break
        \/ Parser_loopBody(parser, statements).parser.current > parser.current

(***************************************************************************)
(* C19: on the tokens of a source, which end with EOF, parse, once called, *)
(* comes to its return with {ast, errors} (no step of it is undefined);    *)
(* the cursor never decreases and never passes the EOF token; and every    *)
(* iteration of the loop of Parser.parse consumes at least one token or    *)
(* ends parsing.                                                           *)
(***************************************************************************)
C19_ParseTerminates ==
    /\ [](pc # "start" => /\ parser.current >= 0
                          /\ parser.current <= Len(parser.tokens) - 1
                          /\ parser.tokens[Len(parser.tokens)].type = "EOF")
    /\ [](IterationConsumesOrEnds)
    /\ [][parser'.current >= parser.current]_vars
    /\ [][(pc = "parse" /\ pc' = "parse") => parser'.current > parser.current]_vars
    /\ (pc = "parse") ~> (pc = "parsed")

\* "@ x = 1 )" and the like: an ERROR token skipped, a statement parsed, then a
\* failing statement that ends parsing before EOF
C19_Witness ==
    /\ pc = "parsed"
    /\ parser.tokens[1].type = "ERROR"
    /\ Len(statements) = 1
    /\ Len(parser.errors) = 1
    /\ parser.current > 1
    /\ parser.current < Len(parser.tokens) - 1

(***************************************************************************)
(* The pipeline: compile (compiler.ts)                                     *)
(***************************************************************************)
\* A value of a field declared T | null that is not null
NonNull(v) == [kind |-> "value", value |-> v]

\* Mutant of collectLexicalErrors: only the first ERROR token is reported
collectLexicalErrors_firstOnly(tokens) ==
    LET errorTokens == SelectSeq(tokens, LAMBDA token : token.type = "ERROR")
    IN  [i \in 1..(IF Len(errorTokens) > 0 THEN 1 ELSE 0) |->
            [phase    |-> "lexical",
             message  |-> <<"Unexpected character '">> \o errorTokens[i].lexeme \o <<"'">>,
             position |-> errorTokens[i].position]]

\* collectLexicalErrors(tokens): filter on ERROR, then map to CompilerError;
\* the message is the template's text around the lexeme
collectLexicalErrors(tokens) ==
    LET errorTokens == SelectSeq(tokens, LAMBDA token : token.type = "ERROR")
    IN  [i \in 1..Len(errorTokens) |->
            [phase    |-> "lexical",
             message  |-> <<"Unexpected character '">> \o errorTokens[i].lexeme \o <<"'">>,
             position |-> errorTokens[i].position]]

\* compile(source): the locals at its first line
newCompilation(source) ==
    [source       |-> source,
     errors       |-> <<>>,
     tokens       |-> <<>>,
     ast          |-> null,
     symbolTable  |-> null,
     annotatedAst |-> null,
     parseResult  |-> null]

\* Phase 1: tokens = tokenize(source); errors.push(...lexicalErrors)
compile_lexical(c) ==
    LET tokens == tokenize(c.source)
    IN  [c EXCEPT !.tokens = tokens,
                  !.errors = @ \o collectLexicalErrors(tokens)]

\* Phase 2: parseResult = parse(tokens); its errors are pushed when there are any
compile_syntax(c) ==
    LET parseResult == parse(c.tokens)
    IN  [c EXCEPT !.parseResult = parseResult,
                  !.errors = IF Len(parseResult.errors) > 0
                             THEN @ \o parseResult.errors ELSE @]

\* Phase 3, inside if (parseResult.ast.length > 0)
compile_semanticOf(c, semanticResult) ==
    [c EXCEPT !.ast = NonNull(c.parseResult.ast),
              !.errors = IF Len(semanticResult.errors) > 0
                         THEN @ \o semanticResult.errors ELSE @,
              !.symbolTable = NonNull(semanticResult.symbolTable),
              !.annotatedAst = NonNull(semanticResult.annotatedAst)]

\* Mutant of compile_semantic: analysis runs only after a parse without errors
compile_semantic_onlyIfClean(c) ==
    IF Len(c.parseResult.ast) > 0 /\ Len(c.parseResult.errors) = 0
    THEN compile_semanticOf(c, analyze(c.parseResult.ast))
    ELSE c

compile_semantic(c) ==
    IF Len(c.parseResult.ast) > 0
    THEN compile_semanticOf(c, analyze(c.parseResult.ast))
    ELSE c

\* return { tokens, ast, symbolTable, annotatedAst, errors }
CompilationResult(c) ==
    [tokens       |-> c.tokens,
     ast          |-> c.ast,
     symbolTable  |-> c.symbolTable,
     annotatedAst |-> c.annotatedAst,
     errors       |-> c.errors]

\* export function compile(source)
compile(source) ==
    CompilationResult(compile_semantic(compile_syntax(compile_lexical(
        newCompilation(source)))))

(***************************************************************************)
(* Specification SpecCompile: compile, phase by phase, on every source of  *)
(* at most MaxSrcLen characters of CompileAlphabet. result holds the       *)
(* locals of compile while it runs and what it returned afterwards         *)
(* (under returned, next to the source it was called with).                *)
(***************************************************************************)
CompileAlphabet == {"x", "1", "@", ")", "=", " "}

CompileInit ==
    /\ pc = "compile"
    /\ \E source \in SeqsUpTo(CompileAlphabet, MaxSrcLen) :
          result = newCompilation(source)
    /\ lexer = idleLexer
    /\ parser = idleParser
    /\ statements = <<>>
    /\ ast = <<>>
    /\ analyzer = idleAnalyzer
    /\ annotatedAst = <<>>
    /\ printed = <<>>
    /\ reparsed = <<>>
    /\ edited = <<>>
    /\ worker = <<>>
    /\ app = <<>>
    /\ heap = <<>>

CompilePhase(from, to, after) ==
    /\ pc = from
    /\ result' = after
    /\ pc' = to
    /\ UNCHANGED <<heap, worker, app, lexer, parser, statements, ast, analyzer, annotatedAst, printed,
                   reparsed, edited>>

CompileLexical  == CompilePhase("compile", "lexical", compile_lexical(result))
CompileSyntax   == CompilePhase("lexical", "syntax", compile_syntax(result))
CompileSemantic == CompilePhase("syntax", "semantic", compile_semantic(result))
CompileReturn   ==
    CompilePhase("semantic", "compiled",
                 [source |-> result.source, returned |-> CompilationResult(result)])

CompileNext == CompileLexical \/ CompileSyntax \/ CompileSemantic \/ CompileReturn

SpecCompile == CompileInit /\ [][CompileNext]_vars

\* The ERROR tokens of a token list, in token order
ErrorTokens(tokens) == SelectSeq(tokens, LAMBDA token : token.type = "ERROR")

\* xs without its first n elements
Drop(xs, n) == SubSeq(xs, n + 1, Len(xs))

\* xs begins with ys
StartsWith(xs, ys) == Len(ys) <= Len(xs) /\ SubSeq(xs, 1, Len(ys)) = ys

(***************************************************************************)
(* C20: the errors compile returns are, in this order, one lexical error   *)
(* per ERROR token (in token order, at the token's position, its message   *)
(* containing the character), then the errors of parse on the tokens, then *)
(* the errors of analyze on the parsed statements; and while compile runs  *)
(* the list only grows at its end.                                         *)
(***************************************************************************)
C20_ErrorsInPhaseOrder ==
    /\ [](pc = "compiled" =>
            LET errors == result.returned.errors
                tokens == tokenize(result.source)
                bad    == ErrorTokens(tokens)
                syntax == parse(tokens)
                semantic == analyze(syntax.ast)
            IN  /\ Len(errors) = Len(bad) + Len(syntax.errors) + Len(semantic.errors)
                /\ \A i \in 1..Len(bad) :
                      /\ errors[i].phase = "lexical"
                      /\ errors[i].position = bad[i].position
                      /\ Len(bad[i].lexeme) = 1
                      /\ \E k \in DOMAIN errors[i].message :
                            errors[i].message[k] = bad[i].lexeme[1]
                /\ SubSeq(errors, Len(bad) + 1, Len(bad) + Len(syntax.errors))
                       = syntax.errors
                /\ Drop(errors, Len(bad) + Len(syntax.errors)) = semantic.errors
                /\ \A i \in DOMAIN syntax.errors : syntax.errors[i].phase = "syntax"
                /\ \A i \in DOMAIN semantic.errors :
                      semantic.errors[i].phase = "semantic")
    /\ [][pc' # "compiled" => StartsWith(result'.errors, result.errors)]_vars
    /\ [][pc' = "compiled" => result'.returned.errors = result.errors]_vars

\* "@x)@": two ERROR tokens around a statement x and a stray ")": two lexical
\* errors, then one syntax error, then one semantic error
C20_Witness ==
    /\ pc = "compiled"
    /\ result.source = <<"@", "x", ")", "@">>
    /\ Len(result.returned.errors) = 4
    /\ result.returned.errors[1].phase = "lexical"
    /\ result.returned.errors[2].phase = "lexical"
    /\ result.returned.errors[2].position.column = 4
    /\ result.returned.errors[3].phase = "syntax"
    /\ result.returned.errors[4].phase = "semantic"

(***************************************************************************)
(* C21: in what compile returns, tokens is present (it ends with EOF); ast *)
(* is null exactly when parse gave no statement, and otherwise is what     *)
(* parse gave; symbolTable and annotatedAst are null exactly when ast is,  *)
(* and otherwise are what analyze gave for the parsed statements, also     *)
(* when a syntax error followed those statements.                          *)
(***************************************************************************)
C21_NullnessOfResultFields ==
    pc = "compiled" =>
        LET r == result.returned
            parsed == parse(tokenize(result.source))
        IN  /\ r.tokens = tokenize(result.source)
            /\ Len(r.tokens) >= 1
            /\ r.tokens[Len(r.tokens)].type = "EOF"
            /\ (r.ast.kind = "null") <=> (Len(parsed.ast) = 0)
            /\ (r.symbolTable.kind = "null") <=> (r.ast.kind = "null")
            /\ (r.annotatedAst.kind = "null") <=> (r.ast.kind = "null")
            /\ r.ast.kind # "null" =>
                  /\ r.ast.value = parsed.ast
                  /\ r.symbolTable.value = analyze(parsed.ast).symbolTable
                  /\ r.annotatedAst.value = analyze(parsed.ast).annotatedAst
                  /\ Len(r.annotatedAst.value) = Len(parsed.ast)

\* "x=1 )": one statement parsed, then a syntax error at ")": analysis has run
\* and x is in the symbol table
C21_Witness ==
    /\ pc = "compiled"
    /\ result.source = <<"x", "=", "1", " ", ")">>
    /\ \E i \in DOMAIN result.returned.errors : result.returned.errors[i].phase = "syntax"
    /\ result.returned.ast.kind = "value"
    /\ Len(result.returned.ast.value) = 1
    /\ result.returned.symbolTable.kind = "value"
    /\ Len(result.returned.symbolTable.value) = 1
    /\ result.returned.annotatedAst.kind = "value"

(***************************************************************************)
(* The compiler worker and its manager (compiler.worker.ts,                *)
(* useCompilerWorker.ts).  worker holds                                    *)
(*   manager    the variables of the closure of createCompilerWorker       *)
(*              (worker is TRUE while the Worker object is not null),      *)
(*   thread     the module variable currentRequestId of the worker script, *)
(*   inbox      the requests posted to the worker and not yet handled,     *)
(*   outbox     the responses posted by the worker and not yet handled,    *)
(*   microtasks the reactions of the fallback's import().then not yet run, *)
(* and two histories the program does not keep: issued, one entry per call *)
(* of compile(), and delivered, one entry per call of the result callback. *)
(***************************************************************************)
\* createCompilerWorker(), with new Worker(...) having succeeded (created) or thrown
createCompilerWorker(created) ==
    [manager    |-> [worker           |-> created,
                     currentRequestId |-> 0,
                     resultCallback   |-> "null",
                     isWorkerReady    |-> created],
     thread     |-> [currentRequestId |-> null],
     inbox      |-> <<>>,
     outbox     |-> <<>>,
     microtasks |-> <<>>,
     issued     |-> <<>>,
     delivered  |-> <<>>]

\* The callback App registers: setResult(compilationResult); setIsLoading(false)
App_onResult(a, compilationResult) ==
    [a EXCEPT !.result = NonNull(compilationResult), !.isLoading = FALSE]

\* resultCallback(value), for the callback registered: the call is written to
\* delivered, and App's callback sets App's state
resultCallback(w, a, from, call, value) ==
    [worker |-> [w EXCEPT !.delivered =
                     Append(@, [from |-> from, call |-> call, result |-> value])],
     app    |-> IF w.manager.resultCallback = "app" THEN App_onResult(a, value) ELSE a]

\* onResult(callback)
manager_onResult(w, callback) == [w EXCEPT !.manager.resultCallback = callback]

\* compile(source) of the manager: the fallback when there is no worker,
\* otherwise currentRequestId++ and worker.postMessage(request)
manager_compile(w, source) ==
    IF ~w.manager.worker \/ ~w.manager.isWorkerReady
    THEN [w EXCEPT !.microtasks = Append(@, [source |-> source, call |-> Len(w.issued) + 1]),
                   !.issued = Append(@, [path |-> "fallback", id |-> 0, source |-> source])]
    ELSE [w EXCEPT !.manager.currentRequestId = @ + 1,
                   !.inbox = Append(@, [id     |-> w.manager.currentRequestId + 1,
                                        source |-> source]),
                   !.issued = Append(@, [path   |-> "worker",
                                         id     |-> w.manager.currentRequestId + 1,
                                         source |-> source])]

\* terminate(): the Worker is terminated, and with it its pending messages
manager_terminate(w) ==
    IF w.manager.worker
    THEN [w EXCEPT !.manager.worker = FALSE,
                   !.manager.isWorkerReady = FALSE,
                   !.inbox = <<>>,
                   !.outbox = <<>>]
    ELSE w

\* The call of compile() that issued the request of this id
CallOfRequest(w, id) ==
    CHOOSE k \in DOMAIN w.issued : w.issued[k].path = "worker" /\ w.issued[k].id = id

\* Mutant of worker_onmessage: every response is passed on
worker_onmessage_anyId(w, a, response) ==
    IF w.manager.resultCallback # "null"
    THEN resultCallback(w, a, "worker", CallOfRequest(w, response.id), response.result)
    ELSE [worker |-> w, app |-> a]

\* worker.onmessage of the manager, on one response
worker_onmessage(w, a, response) ==
    IF response.id = w.manager.currentRequestId /\ w.manager.resultCallback # "null"
    THEN resultCallback(w, a, "worker", CallOfRequest(w, response.id), response.result)
    ELSE [worker |-> w, app |-> a]

\* worker.onerror of the manager: an error result goes to the callback
worker_onerror(w, a, message) ==
    IF w.manager.resultCallback # "null"
    THEN resultCallback(w, a, "error", 0,
             [tokens |-> <<>>, ast |-> null, symbolTable |-> null, annotatedAst |-> null,
              errors |-> << [phase    |-> "lexical",
                             message  |-> <<"Worker error: ", message>>,
                             position |-> Position(1, 1)] >>])
    ELSE [worker |-> w, app |-> a]

\* The reaction of import('../compiler/compiler').then(...) in the fallback
fallback_then(w, a, task) ==
    IF w.manager.resultCallback # "null"
    THEN resultCallback(w, a, "fallback", task.call, compile(task.source))
    ELSE [worker |-> w, app |-> a]

\* Mutant of self_onmessage: a request whose id is odd gets no response
self_onmessage_dropOdd(w, request) ==
    IF request.id % 2 = 0
    THEN [w EXCEPT !.thread.currentRequestId = NonNull(request.id),
                   !.outbox = Append(@, [id |-> request.id, result |-> compile(request.source)])]
    ELSE [w EXCEPT !.thread.currentRequestId = NonNull(request.id)]

\* self.onmessage of the worker script, on one request: compile returns for
\* every source, so the catch clause is not entered
self_onmessage(w, request) ==
    LET set == [w EXCEPT !.thread.currentRequestId = NonNull(request.id)]
    IN  IF set.thread.currentRequestId = NonNull(request.id)
        THEN [set EXCEPT !.outbox =
                  Append(@, [id |-> request.id, result |-> compile(request.source)])]
        ELSE set

(***************************************************************************)
(* Specification SpecWorker: a manager from createCompilerWorker and a     *)
(* client that registers a callback, calls compile() up to MaxCalls times  *)
(* and may terminate, interleaved in every way with the worker thread and  *)
(* the delivery of messages and microtasks.                                *)
(***************************************************************************)
WorkerSources == {<<"1">>, <<"x">>}

WorkerInit ==
    /\ pc = "manager"
    /\ \E created \in BOOLEAN : worker = createCompilerWorker(created)
    /\ app = <<>>
    /\ heap = <<>>
    /\ lexer = idleLexer
    /\ parser = idleParser
    /\ statements = <<>>
    /\ ast = <<>>
    /\ analyzer = idleAnalyzer
    /\ annotatedAst = <<>>
    /\ printed = <<>>
    /\ reparsed = <<>>
    /\ edited = <<>>
    /\ result = <<>>

\* What the steps of the manager, the worker and App leave alone
WorkerFrame ==
    UNCHANGED <<heap, lexer, parser, statements, ast, analyzer, annotatedAst, printed,
                reparsed, edited, result>>

\* A step that ends with the worker and App as in both
WorkerAppStep(both) ==
    /\ worker' = both.worker
    /\ app' = both.app
    /\ UNCHANGED pc
    /\ WorkerFrame

ClientOnResult ==
    /\ pc = "manager"
    /\ worker.manager.resultCallback = "null"
    /\ worker' = manager_onResult(worker, "client")
    /\ UNCHANGED <<pc, app>>
    /\ WorkerFrame

ClientCompile ==
    /\ pc = "manager"
    /\ Len(worker.issued) < MaxCalls
    /\ \E source \in WorkerSources : worker' = manager_compile(worker, source)
    /\ UNCHANGED <<pc, app>>
    /\ WorkerFrame

ClientTerminate ==
    /\ pc = "manager"
    /\ worker.manager.worker
    /\ worker' = manager_terminate(worker)
    /\ UNCHANGED <<pc, app>>
    /\ WorkerFrame

\* The worker thread takes the oldest request
WorkerOnMessage ==
    /\ pc \in {"manager", "mounted"}
    /\ worker.inbox # <<>>
    /\ worker' = self_onmessage([worker EXCEPT !.inbox = Tail(@)], Head(worker.inbox))
    /\ UNCHANGED <<pc, app>>
    /\ WorkerFrame

\* The main thread takes the oldest response
ManagerOnMessage ==
    /\ pc \in {"manager", "mounted"}
    /\ worker.manager.worker
    /\ worker.outbox # <<>>
    /\ WorkerAppStep(worker_onmessage([worker EXCEPT !.outbox = Tail(@)], app,
                                      Head(worker.outbox)))

\* The main thread runs the oldest reaction of the fallback
FallbackThen ==
    /\ pc \in {"manager", "mounted"}
    /\ worker.microtasks # <<>>
    /\ WorkerAppStep(fallback_then([worker EXCEPT !.microtasks = Tail(@)], app,
                                   Head(worker.microtasks)))

\* The Worker object fires an error event (once at most)
ManagerOnError ==
    /\ pc \in {"manager", "mounted"}
    /\ worker.manager.worker
    /\ \A i \in DOMAIN worker.delivered : worker.delivered[i].from # "error"
    /\ WorkerAppStep(worker_onerror(worker, app, "message"))

WorkerNext ==
    \/ ClientOnResult
    \/ ClientCompile
    \/ ClientTerminate
    \/ WorkerOnMessage
    \/ ManagerOnMessage
    \/ FallbackThen
    \/ ManagerOnError

SpecWorker == WorkerInit /\ [][WorkerNext]_vars

\* The step passes a worker response to the result callback
DeliversResponse ==
    /\ Len(worker'.delivered) = Len(worker.delivered) + 1
    /\ worker'.delivered[Len(worker'.delivered)].from = "worker"

(***************************************************************************)
(* C22: the ids of the requests the manager posts increase strictly, and a *)
(* worker response reaches the result callback only when its id is the id  *)
(* of the latest request, which is the latest call of compile(): whatever  *)
(* the interleaving, no response to an earlier request is delivered.       *)
(***************************************************************************)
C22_OnlyLatestResponseDelivered ==
    /\ [](pc = "manager" =>
            \A j, k \in DOMAIN worker.issued :
                (j < k /\ worker.issued[j].path = "worker" /\ worker.issued[k].path = "worker")
                    => worker.issued[j].id < worker.issued[k].id)
    /\ [][DeliversResponse =>
            /\ Head(worker.outbox).id = worker.manager.currentRequestId
            /\ Head(worker.outbox).id = worker.issued[Len(worker.issued)].id
            /\ worker.issued[Len(worker.issued)].path = "worker"
            /\ worker'.delivered[Len(worker'.delivered)].call = Len(worker.issued)
            /\ worker'.delivered[Len(worker'.delivered)].result
                   = compile(worker.issued[Len(worker.issued)].source)]_vars

\* Two requests were posted with the callback registered and both were answered;
\* only the answer to the second reached the callback
C22_Witness ==
    /\ pc = "manager"
    /\ Len(worker.issued) = 2
    /\ worker.issued[1].source # worker.issued[2].source
    /\ worker.manager.currentRequestId = 2
    /\ worker.thread.currentRequestId = NonNull(2)
    /\ worker.inbox = <<>>
    /\ worker.outbox = <<>>
    /\ Len(worker.delivered) = 1
    /\ worker.delivered[1].from = "worker"
    /\ worker.delivered[1].call = 2

(***************************************************************************)
(* Specification SpecCompileBlank: compile on every source of at most      *)
(* MaxSrcLen characters of BlankAlphabet, the whitespace characters of the *)
(* validation tests and one letter.                                        *)
(***************************************************************************)
BlankAlphabet == {" ", "\t", "\n", "\r", FF, VT, "x"}

\* isEmptyOrWhitespace(input) (validation.ts)
isEmptyOrWhitespace(input) == Len(trim(input)) = 0

CompileBlankInit ==
    /\ pc = "compile"
    /\ \E source \in SeqsUpTo(BlankAlphabet, MaxSrcLen) :
          result = newCompilation(source)
    /\ lexer = idleLexer
    /\ parser = idleParser
    /\ statements = <<>>
    /\ ast = <<>>
    /\ analyzer = idleAnalyzer
    /\ annotatedAst = <<>>
    /\ printed = <<>>
    /\ reparsed = <<>>
    /\ edited = <<>>
    /\ worker = <<>>
    /\ app = <<>>
    /\ heap = <<>>

SpecCompileBlank == CompileBlankInit /\ [][CompileNext]_vars

(***************************************************************************)
(* C23: for every input that isEmptyOrWhitespace accepts, compile returns  *)
(* the EOF token alone and no error.                                       *)
(***************************************************************************)
C23_BlankInputCompilesClean ==
    (pc = "compiled" /\ isEmptyOrWhitespace(result.source)) =>
        /\ Len(result.returned.tokens) = 1
        /\ result.returned.tokens[1].type = "EOF"
        /\ Len(result.returned.errors) = 0

(***************************************************************************)
(* Specification SpecReanalyze: analyze on an AST an earlier run of        *)
(* analyze returned, or on the last statements of one: the annotatedAst of *)
(* a program of at most MaxStmts statements, without its first k.          *)
(***************************************************************************)
ReanalyzeInit ==
    /\ pc = "analyze"
    /\ \E lines \in SeqsUpTo(SemStatements, MaxStmts) :
          \E k \in 0..Len(lines) :
              ast = Drop(analyze(parse(tokenize(join(lines, <<"\n">>))).ast).annotatedAst, k)
    /\ analyzer = newAnalyzer
    /\ annotatedAst = <<>>
    /\ lexer = idleLexer
    /\ parser = idleParser
    /\ statements = <<>>
    /\ printed = <<>>
    /\ reparsed = <<>>
    /\ edited = <<>>
    /\ worker = <<>>
    /\ app = <<>>
    /\ heap = <<>>
    /\ result = <<>>

SpecReanalyze == ReanalyzeInit /\ [][AnalyzeNext]_vars

\* The Variable nodes of a tree whose name has no entry in table
UndefinedIn(node, table) ==
    {v \in Subnodes(node) : v.kind = "Variable" /\ ~Map_has(table, v.name)}

(***************************************************************************)
(* C24: whatever the AST, a step of analyze returns each Variable whose    *)
(* name is not in the symbol table without resolvedType, so that every     *)
(* UnaryExpr and BinaryExpr containing it has none either and an           *)
(* assignment of it leaves the symbol table as it was.                     *)
(***************************************************************************)
C24_UndefinedVariableStaysUnresolved ==
    [][Len(annotatedAst') = Len(annotatedAst) + 1 =>
          LET node == annotatedAst'[Len(annotatedAst')]
          IN  /\ \A v \in UndefinedIn(node, analyzer.symbolTable) :
                    resolvedTypeOf(v) = undefined
              /\ \A n \in Subnodes(node) :
                    (/\ n.kind \in {"UnaryExpr", "BinaryExpr"}
                     /\ UndefinedIn(n, analyzer.symbolTable) # {})
                        => resolvedTypeOf(n) = undefined
              /\ (/\ node.kind = "Assignment"
                  /\ UndefinedIn(node, analyzer.symbolTable) # {})
                     => analyzer'.symbolTable = analyzer.symbolTable]_vars

(***************************************************************************)
(* The analyzer on node objects.  A node is an object of heap; its fields  *)
(* value, left, right and operand hold the address of another object.      *)
(* { ...node, f: v } makes a new object; an assignment to a property of an *)
(* object would change heap at the object's address.                       *)
(***************************************************************************)
\* A new object: the heap with it and its address
New(h, object) == [heap |-> Append(h, object), ref |-> Len(h) + 1]

\* The objects of a tree, children first: the heap with them and the root's address
RECURSIVE Store(_, _)
Store(h, node) ==
    CASE node.kind = "Assignment" ->
             Let(Store(h, node.value), LAMBDA value :
                 New(value.heap, [node EXCEPT !.value = value.ref]))
      [] node.kind = "BinaryExpr" ->
             Let(Store(h, node.left), LAMBDA left :
                 Let(Store(left.heap, node.right), LAMBDA right :
                     New(right.heap, [node EXCEPT !.left = left.ref, !.right = right.ref])))
      [] node.kind = "UnaryExpr" ->
             Let(Store(h, node.operand), LAMBDA operand :
                 New(operand.heap, [node EXCEPT !.operand = operand.ref]))
      [] OTHER -> New(h, node)

\* The statements of an AST as objects: the heap and the addresses of the roots
RECURSIVE StoreAll(_, _, _)
StoreAll(h, refs, nodes) ==
    IF nodes = <<>> THEN [heap |-> h, refs |-> refs]
    ELSE Let(Store(h, Head(nodes)), LAMBDA stored :
             StoreAll(stored.heap, Append(refs, stored.ref), Tail(nodes)))

\* The tree an address stands for
RECURSIVE Load(_, _)
Load(h, ref) ==
    LET node == h[ref]
    IN  CASE node.kind = "Assignment" -> [node EXCEPT !.value = Load(h, node.value)]
          [] node.kind = "BinaryExpr" -> [node EXCEPT !.left = Load(h, node.left),
                                                      !.right = Load(h, node.right)]
          [] node.kind = "UnaryExpr"  -> [node EXCEPT !.operand = Load(h, node.operand)]
          [] OTHER                    -> node

LoadAll(h, refs) == [i \in DOMAIN refs |-> Load(h, refs[i])]

\* What a method returns (an address), the heap and the analyzer it leaves
AnnotatedRef(made, a) == [ref |-> made.ref, heap |-> made.heap, analyzer |-> a]

\* Mutant of Heap_analyzeLiteral: node.resolvedType = node.dataType; return node
Heap_analyzeLiteral_inPlace(h, a, ref) ==
    [ref      |-> ref,
     heap     |-> [h EXCEPT ![ref] = withResolvedType(h[ref], h[ref].dataType)],
     analyzer |-> a]

\* analyzeLiteral: return { ...node, resolvedType: node.dataType }
Heap_analyzeLiteral(h, a, ref) ==
    AnnotatedRef(New(h, withResolvedType(h[ref], h[ref].dataType)), a)

\* analyzeVariable: return node, the object it was given, when there is no entry
Heap_analyzeVariable(h, a, ref) ==
    IF ~Map_has(a.symbolTable, h[ref].name)
    THEN [ref      |-> ref,
          heap     |-> h,
          analyzer |-> SemanticAnalyzer_addError(a,
                           <<"Undefined variable '", h[ref].name, "'">>,
                           h[ref].position, h[ref].name)]
    ELSE AnnotatedRef(New(h, withResolvedType(h[ref],
                                              Map_get(a.symbolTable, h[ref].name).type)),
                      a)

\* getResolvedType of the object at an address
Heap_getResolvedType(h, ref) ==
    IF h[ref].kind = "Assignment" THEN resolvedTypeOf(h[h[ref].value])
    ELSE resolvedTypeOf(h[ref])

RECURSIVE Heap_analyzeNode(_, _, _)

Heap_analyzeAssignment(h, a, ref) ==
    Let(Heap_analyzeNode(h, a, h[ref].value), LAMBDA value :
        LET valueType == Heap_getResolvedType(value.heap, value.ref)
        IN  AnnotatedRef(New(value.heap, [h[ref] EXCEPT !.value = value.ref]),
                         IF valueType # undefined
                         THEN [value.analyzer EXCEPT !.symbolTable =
                                  Map_set(@, h[ref].name,
                                          [name |-> h[ref].name, type |-> valueType,
                                           definedAt |-> h[ref].position])]
                         ELSE value.analyzer))

Heap_analyzeBinaryExpr(h, a, ref) ==
    Let(Heap_analyzeNode(h, a, h[ref].left), LAMBDA left :
        Let(Heap_analyzeNode(left.heap, left.analyzer, h[ref].right), LAMBDA right :
            AnnotatedRef(
                New(right.heap,
                    withResolvedType([h[ref] EXCEPT !.left = left.ref, !.right = right.ref],
                                     binaryResolvedType(
                                         h[ref].operator,
                                         Heap_getResolvedType(right.heap, left.ref),
                                         Heap_getResolvedType(right.heap, right.ref)))),
                right.analyzer)))

Heap_analyzeUnaryExpr(h, a, ref) ==
    Let(Heap_analyzeNode(h, a, h[ref].operand), LAMBDA operand :
        AnnotatedRef(New(operand.heap,
                         withResolvedType([h[ref] EXCEPT !.operand = operand.ref],
                                          Heap_getResolvedType(operand.heap, operand.ref))),
                     operand.analyzer))

Heap_analyzeNode(h, a, ref) ==
    CASE h[ref].kind = "Assignment" -> Heap_analyzeAssignment(h, a, ref)
      [] h[ref].kind = "BinaryExpr" -> Heap_analyzeBinaryExpr(h, a, ref)
      [] h[ref].kind = "UnaryExpr"  -> Heap_analyzeUnaryExpr(h, a, ref)
      [] h[ref].kind = "Literal"    -> Heap_analyzeLiteral(h, a, ref)
      [] h[ref].kind = "Variable"   -> Heap_analyzeVariable(h, a, ref)

(***************************************************************************)
(* Specification SpecHeap: analyze, statement by statement, on the objects *)
(* of the AST of a program of at most MaxStmts statements.  ast and        *)
(* annotatedAst hold addresses.                                            *)
(***************************************************************************)
HeapInit ==
    /\ pc = "analyze"
    /\ \E lines \in SeqsUpTo(SemStatements, MaxStmts) :
          LET stored == StoreAll(<<>>, <<>>, parse(tokenize(join(lines, <<"\n">>))).ast)
          IN  heap = stored.heap /\ ast = stored.refs
    /\ analyzer = newAnalyzer
    /\ annotatedAst = <<>>
    /\ lexer = idleLexer
    /\ parser = idleParser
    /\ statements = <<>>
    /\ printed = <<>>
    /\ reparsed = <<>>
    /\ edited = <<>>
    /\ worker = <<>>
    /\ app = <<>>
    /\ result = <<>>

HeapAnalyzeStepTo(annotated) ==
    /\ heap' = annotated.heap
    /\ analyzer' = annotated.analyzer
    /\ annotatedAst' = Append(annotatedAst, annotated.ref)

\* analyze, one iteration of the loop over ast
HeapAnalyzeStep ==
    /\ pc = "analyze"
    /\ Len(annotatedAst) < Len(ast)
    /\ HeapAnalyzeStepTo(Heap_analyzeNode(heap, analyzer, ast[Len(annotatedAst) + 1]))
    /\ UNCHANGED <<pc, lexer, parser, statements, ast, printed, reparsed, edited, result,
                   worker, app>>

HeapAnalyzeReturn ==
    /\ pc = "analyze"
    /\ Len(annotatedAst) = Len(ast)
    /\ pc' = "analyzed"
    /\ UNCHANGED <<heap, lexer, parser, statements, ast, analyzer, annotatedAst, printed,
                   reparsed, edited, result, worker, app>>

HeapNext == HeapAnalyzeStep \/ HeapAnalyzeReturn

SpecHeap == HeapInit /\ [][HeapNext]_vars

\* The addresses of the objects of the tree at an address
RECURSIVE Reachable(_, _)
Reachable(h, ref) ==
    {ref} \cup
    CASE h[ref].kind = "Assignment" -> Reachable(h, h[ref].value)
      [] h[ref].kind = "BinaryExpr" -> Reachable(h, h[ref].left) \cup Reachable(h, h[ref].right)
      [] h[ref].kind = "UnaryExpr"  -> Reachable(h, h[ref].operand)
      [] OTHER                      -> {}

InputObjects == UNION {Reachable(heap, ast[i]) : i \in DOMAIN ast}

(***************************************************************************)
(* C25: analyze changes no object of the AST it is given: a step leaves    *)
(* every input object (every object there was, indeed) with the fields and *)
(* values it had, no input node has a resolvedType at any time, and what   *)
(* analyze returns is the annotated tree, made of other objects except for *)
(* the Variable nodes without an entry, which are returned themselves.     *)
(***************************************************************************)
C25_InputNotMutated ==
    /\ [][/\ Len(heap') >= Len(heap)
          /\ \A ref \in DOMAIN heap : heap'[ref] = heap[ref]
          /\ InputObjects' = InputObjects]_vars
    /\ [](pc \in {"analyze", "analyzed"} =>
            /\ \A ref \in InputObjects : "resolvedType" \notin DOMAIN heap[ref]
            /\ LoadAll(heap, annotatedAst)
                   = SubSeq(analyze(LoadAll(heap, ast)).annotatedAst, 1, Len(annotatedAst))
            /\ \A i \in DOMAIN annotatedAst :
                  \A ref \in Reachable(heap, annotatedAst[i]) \cap InputObjects :
                      /\ heap[ref].kind = "Variable"
                      /\ \E k \in DOMAIN analyzer.errors :
                            analyzer.errors[k].position = heap[ref].position)

\* "x = 2" then "x + y * x": the annotated second statement has new objects with
\* a resolvedType for x and shares the object of the undefined y with the input
C25_Witness ==
    /\ pc = "analyzed"
    /\ Len(ast) = 2
    /\ heap[ast[1]].kind = "Assignment"
    /\ heap[ast[2]].kind = "BinaryExpr"
    /\ Len(analyzer.errors) = 1
    /\ Len(heap) > Cardinality(InputObjects)
    /\ Reachable(heap, annotatedAst[2]) \cap InputObjects # {}
    /\ resolvedTypeOf(heap[heap[annotatedAst[2]].left]) = "Integer"

\* The index in tokens of the first token at or after index i that is not ERROR
RECURSIVE FirstNonError(_, _)
FirstNonError(tokens, i) ==
    IF tokens[i].type = "ERROR" THEN FirstNonError(tokens, i + 1) ELSE i

\* One iteration of Parser.parse by a new parser on the tokens from index k on
IterationFrom(tokens, k) ==
    Parser_loopBody(newParser(SubSeq(tokens, k, Len(tokens))), <<>>)

(***************************************************************************)
(* C26: an iteration of Parser.parse that starts on an ERROR token does    *)
(* what it would do started on the first token after the ERROR tokens: the *)
(* same statement (or none), the same syntax errors, the same tokens       *)
(* consumed, so the skipped tokens add no syntax error; and tokens that    *)
(* are ERROR tokens and EOF only give an empty ast and no syntax error.    *)
(***************************************************************************)
C26_ErrorTokensSkipped ==
    /\ [][(pc = "parse" /\ Parser_peek(parser).type = "ERROR") =>
            LET k     == FirstNonError(parser.tokens, parser.current + 1)
                fresh == IterationFrom(parser.tokens, k)
            IN  /\ statements' = statements \o fresh.statements
                /\ Drop(parser'.errors, Len(parser.errors)) = fresh.parser.errors
                /\ parser'.current = (k - 1) + fresh.parser.current
                /\ (pc' = "parsed") <=> fresh.break]_vars
    /\ [](( /\ pc = "parsed"
            /\ \A i \in 1..(Len(parser.tokens) - 1) : parser.tokens[i].type = "ERROR")
          => (statements = <<>> /\ parser.errors = <<>>))

\* "@ + x": the ERROR token is skipped and + x is the one statement, without
\* a syntax error
C26_Witness ==
    /\ pc = "parsed"
    /\ Len(parser.tokens) = 4
    /\ parser.tokens[1].type = "ERROR"
    /\ parser.tokens[2].type = "PLUS"
    /\ parser.tokens[3].type = "IDENTIFIER"
    /\ Len(statements) = 1
    /\ statements[1].kind = "UnaryExpr"
    /\ parser.errors = <<>>

\* "@ @": ERROR tokens and EOF only
C26_WitnessOnlyErrors ==
    /\ pc = "parsed"
    /\ Len(parser.tokens) = 3
    /\ parser.tokens[1].type = "ERROR"
    /\ parser.tokens[2].type = "ERROR"
    /\ statements = <<>>
    /\ parser.errors = <<>>

(***************************************************************************)
(* Specification SpecWorkerLive: the worker was created and is not         *)
(* terminated, the client registers its callback and then calls compile()  *)
(* up to MaxCalls times; requests and responses are handled in the order   *)
(* posted, none is lost, and neither thread's event loop stops while it    *)
(* has a message to handle.                                                *)
(***************************************************************************)
WorkerLiveInit ==
    /\ pc = "manager"
    /\ worker = createCompilerWorker(TRUE)
    /\ app = <<>>
    /\ heap = <<>>
    /\ lexer = idleLexer
    /\ parser = idleParser
    /\ statements = <<>>
    /\ ast = <<>>
    /\ analyzer = idleAnalyzer
    /\ annotatedAst = <<>>
    /\ printed = <<>>
    /\ reparsed = <<>>
    /\ edited = <<>>
    /\ result = <<>>

\* compile(), called once the callback is registered
ClientCompileRegistered ==
    /\ worker.manager.resultCallback # "null"
    /\ ClientCompile

WorkerLiveNext ==
    \/ ClientOnResult
    \/ ClientCompileRegistered
    \/ WorkerOnMessage
    \/ ManagerOnMessage
    \/ ManagerOnError

\* The worker thread has a request to handle
WorkerOnMessageEnabled == pc \in {"manager", "mounted"} /\ worker.inbox # <<>>

\* Weak fairness of the worker thread, WF_vars(WorkerOnMessage), with ENABLED
\* <<WorkerOnMessage>>_vars written out as WorkerOnMessageEnabled
WorkerOnMessageFair == []<>(~WorkerOnMessageEnabled) \/ []<><<WorkerOnMessage>>_vars

SpecWorkerLive ==
    /\ WorkerLiveInit
    /\ [][WorkerLiveNext]_vars
    /\ WorkerOnMessageFair
    /\ WF_vars(ManagerOnMessage)

\* The callback was called with the result of call number n of compile()
Delivered(n) ==
    \E i \in DOMAIN worker.delivered :
        /\ worker.delivered[i].from = "worker"
        /\ worker.delivered[i].call = n
        /\ worker.delivered[i].result = compile(worker.issued[n].source)

(***************************************************************************)
(* C27: the worker posts one response, with the request's id and the       *)
(* result of compile on its source, for every request it handles; and the  *)
(* result of a call of compile() that no later call follows is eventually  *)
(* passed to the callback.                                                 *)
(***************************************************************************)
C27_LastResultDelivered ==
    /\ [][Len(worker'.inbox) < Len(worker.inbox) =>
            /\ worker'.inbox = Tail(worker.inbox)
            /\ worker'.outbox =
                   Append(worker.outbox,
                          [id     |-> Head(worker.inbox).id,
                           result |-> compile(Head(worker.inbox).source)])]_vars
    /\ \A n \in 1..MaxCalls :
          (Len(worker.issued) = n) ~> (Len(worker.issued) > n \/ Delivered(n))

\* The second of two calls was the last: its result has reached the callback
\* after the result of the first
C27_Witness ==
    /\ Len(worker.issued) = 2
    /\ Len(worker.delivered) = 2
    /\ worker.delivered[1].call = 1
    /\ worker.delivered[2].call = 2
    /\ worker.delivered[2].from = "worker"
    /\ worker.inbox = <<>>
    /\ worker.outbox = <<>>

(***************************************************************************)
(* App (App.tsx).  app holds the state code, result, isLoading and         *)
(* isEmptyInput, the ref debounceTimerRef, the callback of the timer not   *)
(* yet fired (timeout, with the newCode it closes over), and how many      *)
(* times handleCodeChange ran (changes, which the program does not keep).  *)
(***************************************************************************)
DEFAULT_CODE ==
    <<"/", "/", " ", "M", "i", "n", "i", " ", "M", "a", "t", "h", " ", "C", "o", "m",
       "p", "i", "l", "e", "r", "\n",
       "/", "/", " ", "T", "r", "y", " ", "s", "o", "m", "e", " ", "e", "x", "p", "r",
       "e", "s", "s", "i", "o", "n", "s", ":", "\n",
       "x", " ", "=", " ", "4", "2", "\n",
       "y", " ", "=", " ", "3", ".", "1", "4", "\n",
       "r", "e", "s", "u", "l", "t", " ", "=", " ", "x", " ", "+", " ", "y", " ", "*",
       " ", "2", "\n" >>

\* App(): the first render
newApp ==
    [code             |-> DEFAULT_CODE,
     result           |-> null,
     isLoading        |-> FALSE,
     isEmptyInput     |-> FALSE,
     debounceTimerRef |-> null,
     timeout          |-> null,
     changes          |-> 0]

\* The effect on mount, after the callback is registered:
\* if (code.trim()) { setIsLoading(true); workerRef.current.compile(code) }
App_initialCompile(w, a) ==
    IF Len(trim(a.code)) > 0
    THEN [worker |-> manager_compile(w, a.code), app |-> [a EXCEPT !.isLoading = TRUE]]
    ELSE [worker |-> w, app |-> a]

\* The effect on mount
App_mount(a, created) ==
    App_initialCompile(manager_onResult(createCompilerWorker(created), "app"), a)

\* handleCodeChange(newCode): the pending timer is cleared and a new one set
App_handleCodeChange(a, newCode) ==
    [a EXCEPT !.code = newCode,
              !.debounceTimerRef = NonNull(a.changes + 1),
              !.timeout = NonNull(newCode),
              !.changes = @ + 1]

\* The callback of the debounce timer
App_debounced(w, a, newCode) ==
    LET isInputEmpty == Len(trim(newCode)) = 0
        fired == [a EXCEPT !.isEmptyInput = isInputEmpty, !.timeout = null]
    IN  IF isInputEmpty
        THEN [worker |-> w,
              app    |-> [fired EXCEPT !.result = null, !.isLoading = FALSE]]
        ELSE [worker |-> manager_compile(w, newCode),
              app    |-> [fired EXCEPT !.isLoading = TRUE]]

(***************************************************************************)
(* Specification SpecApp: App is mounted, the editor content changes up to *)
(* MaxCalls times to a text of AppSources, the debounce timer fires, the   *)
(* worker and the main thread handle their messages, and App may unmount.  *)
(***************************************************************************)
AppSources == {<<>>, <<" ">>, <<"x">>, <<"1", " ", "+">>}

AppInit ==
    /\ pc = "rendered"
    /\ app = newApp
    /\ worker = <<>>
    /\ heap = <<>>
    /\ lexer = idleLexer
    /\ parser = idleParser
    /\ statements = <<>>
    /\ ast = <<>>
    /\ analyzer = idleAnalyzer
    /\ annotatedAst = <<>>
    /\ printed = <<>>
    /\ reparsed = <<>>
    /\ edited = <<>>
    /\ result = <<>>

AppMount ==
    /\ pc = "rendered"
    /\ \E created \in BOOLEAN :
          LET both == App_mount(app, created)
          IN  worker' = both.worker /\ app' = both.app
    /\ pc' = "mounted"
    /\ WorkerFrame

AppHandleCodeChange ==
    /\ pc = "mounted"
    /\ app.changes < MaxCalls
    /\ \E newCode \in AppSources : app' = App_handleCodeChange(app, newCode)
    /\ UNCHANGED <<pc, worker>>
    /\ WorkerFrame

AppDebounceFires ==
    /\ pc = "mounted"
    /\ app.timeout.kind = "value"
    /\ WorkerAppStep(App_debounced(worker, app, app.timeout.value))

\* The cleanups on unmount: workerRef.current?.terminate(); clearTimeout(...)
AppUnmount ==
    /\ pc = "mounted"
    /\ worker' = manager_terminate(worker)
    /\ app' = [app EXCEPT !.timeout = null]
    /\ pc' = "unmounted"
    /\ WorkerFrame

AppNext ==
    \/ AppMount
    \/ AppHandleCodeChange
    \/ AppDebounceFires
    \/ AppUnmount
    \/ WorkerOnMessage
    \/ ManagerOnMessage
    \/ FallbackThen
    \/ ManagerOnError

SpecApp == AppInit /\ [][AppNext]_vars

\* The last firing of the debounce timer was on empty or whitespace-only content,
\* the result was cleared then and no compile has been issued since
ContentEmptyAndCleared ==
    /\ pc = "mounted"
    /\ app.isEmptyInput
    /\ app.result.kind = "null"
    /\ ~app.isLoading

(***************************************************************************)
(* C28: while the content is empty and the result cleared, a worker        *)
(* response that reaches the callback belongs to no earlier compile: no    *)
(* step puts the response to a request issued before the content became    *)
(* empty into result.                                                      *)
(***************************************************************************)
C28_EmptyContentStaysCleared ==
    [][(ContentEmptyAndCleared /\ DeliversResponse) => app'.result.kind = "null"]_vars

\* The step passes a result of the in-process fallback to the result callback
DeliversFallback ==
    /\ Len(worker'.delivered) = Len(worker.delivered) + 1
    /\ worker'.delivered[Len(worker'.delivered)].from = "fallback"

(***************************************************************************)
(* C29: without a worker, compile() runs the compiler in-process, and the  *)
(* result the callback receives is that of the latest call of compile():   *)
(* once compile() has been called again, the result of the earlier call is *)
(* not delivered.                                                          *)
(***************************************************************************)
C29_FallbackDeliversLatestOnly ==
    [][DeliversFallback =>
          /\ ~worker.manager.worker
          /\ worker'.delivered[Len(worker'.delivered)].result
                 = compile(worker.issued[worker'.delivered[Len(worker'.delivered)].call].source)
          /\ worker'.delivered[Len(worker'.delivered)].call = Len(worker.issued)]_vars

\* The fallback as far as it holds: its results reach the callback one per
\* call made with the callback registered, in the order of the calls
C29_FallbackInOrder ==
    [][DeliversFallback =>
          /\ worker'.delivered[Len(worker'.delivered)].result
                 = compile(worker.issued[worker'.delivered[Len(worker'.delivered)].call].source)
          /\ \A i \in DOMAIN worker.delivered :
                worker.delivered[i].from = "fallback" =>
                    worker.delivered[i].call
                        < worker'.delivered[Len(worker'.delivered)].call]_vars

(***************************************************************************)
(* Specification SpecLexemes: tokenize(source) one iteration of its loop   *)
(* at a time, over sources that hold the four characters scanToken skips,  *)
(* a digit, a letter, the dot and an unrecognised character.               *)
(***************************************************************************)
LexemeAlphabet == {"1", "x", ".", "@", " ", "\t", "\r", "\n"}

LexemesInit ==
    /\ pc = "tokenize"
    /\ \E source \in SeqsUpTo(LexemeAlphabet, MaxSrcLen) : lexer = newLexer(source)
    /\ parser = idleParser
    /\ statements = <<>>
    /\ ast = <<>>
    /\ analyzer = idleAnalyzer
    /\ annotatedAst = <<>>
    /\ printed = <<>>
    /\ reparsed = <<>>
    /\ edited = <<>>
    /\ result = <<>>
    /\ heap = <<>>
    /\ worker = <<>>
    /\ app = <<>>

SpecLexemes == LexemesInit /\ [][LexNext]_vars

\* The lexemes of the tokens, one after the other
RECURSIVE ConcatLexemes(_)
ConcatLexemes(tokens) ==
    IF tokens = <<>> THEN <<>> ELSE Head(tokens).lexeme \o ConcatLexemes(Tail(tokens))

Skipped(c) == c \in {" ", "\t", "\r", "\n"}

WithoutSkipped(s) == SelectSeq(s, LAMBDA c : ~Skipped(c))

====
